---- MODULE Spec2Model ----
(***************************************************************************)
(* Model of the team-profile toolkit (hr/team-profiles/scripts).           *)
(*                                                                         *)
(* Text model.  A Python string is represented by the sequence of its      *)
(* lines, i.e. by the result of s.split("\n"): the string "a\nb\n" is      *)
(* <<"a", "b", "">> and the empty string is <<"">>.  A line is a TLA+      *)
(* string and is inspected character by character (Len, SubSeq, \o), so    *)
(* the regular expressions and the strip calls of the source are           *)
(* translated by what they do to the characters of each line and to the    *)
(* newlines between lines.                                                 *)
(***************************************************************************)
EXTENDS Integers, Sequences, FiniteSets, TLC

(***************************************************************************)
(* Characters and strings                                                  *)
(***************************************************************************)
\* the characters matched by \s that can occur inside a line
WS == {" "}

\* the characters of the class [-\s|] that can occur inside a line
DashChars == {"-", " ", "|"}

Digits == {"0", "1", "2", "3", "4", "5", "6", "7", "8", "9"}

\* rank of a character in code-point order, for the characters of period labels
CharRank(c) ==
    CASE c = "-" -> 0
      [] c = "0" -> 1 [] c = "1" -> 2 [] c = "2" -> 3 [] c = "3" -> 4
      [] c = "4" -> 5 [] c = "5" -> 6 [] c = "6" -> 7 [] c = "7" -> 8
      [] c = "8" -> 9 [] c = "9" -> 10
      [] OTHER -> 11

DigitVal(c) == CharRank(c) - 1

Ch(s, i) == SubSeq(s, i, i)

StartsWith(s, p) == Len(s) >= Len(p) /\ SubSeq(s, 1, Len(p)) = p

\* s.find(p) + 1: the position of the first occurrence of p in s, 0 if none
IndexOf(s, p) ==
    LET hits == {i \in 1..(Len(s) - Len(p) + 1) : SubSeq(s, i, i + Len(p) - 1) = p}
    IN  IF hits = {} THEN 0 ELSE CHOOSE i \in hits : \A j \in hits : i <= j

\* p in s
Contains(s, p) == IndexOf(s, p) > 0

AllIn(s, chars) == \A i \in 1..Len(s) : Ch(s, i) \in chars

\* s.rstrip(chars) within one line
RStripLine(s, chars) ==
    LET keep == {i \in 1..Len(s) : Ch(s, i) \notin chars}
    IN  IF keep = {} THEN ""
        ELSE SubSeq(s, 1, CHOOSE i \in keep : \A j \in keep : j <= i)

\* s.lstrip(chars) within one line
LStripLine(s, chars) ==
    LET keep == {i \in 1..Len(s) : Ch(s, i) \notin chars}
    IN  IF keep = {} THEN ""
        ELSE SubSeq(s, CHOOSE i \in keep : \A j \in keep : i <= j, Len(s))

\* string comparison a < b in code-point order (Python's order on str)
RECURSIVE StrLess(_, _)
StrLess(a, b) ==
    IF Len(b) = 0 THEN FALSE
    ELSE IF Len(a) = 0 THEN TRUE
    ELSE IF Ch(a, 1) = Ch(b, 1) THEN StrLess(SubSeq(a, 2, Len(a)), SubSeq(b, 2, Len(b)))
    ELSE CharRank(Ch(a, 1)) < CharRank(Ch(b, 1))

(***************************************************************************)
(* Multi-line text: sequences of lines                                     *)
(***************************************************************************)
Last(L) == L[Len(L)]

Front(L) == SubSeq(L, 1, Len(L) - 1)

\* s.rstrip('\n')
RECURSIVE RStripNL(_)
RStripNL(L) ==
    IF Len(L) > 1 /\ Last(L) = "" THEN RStripNL(Front(L)) ELSE L

\* s.rstrip('-'): only the last line can lose characters
RStripDash(L) == Front(L) \o <<RStripLine(Last(L), {"-"})>>

\* s.rstrip('\n-')
RECURSIVE RStripNLDash(_)
RStripNLDash(L) ==
    LET l == RStripLine(Last(L), {"-"})
    IN  IF l = "" /\ Len(L) > 1 THEN RStripNLDash(Front(L)) ELSE Front(L) \o <<l>>

\* s.rstrip() : whitespace, newlines included
RECURSIVE RStripText(_)
RStripText(L) ==
    LET l == RStripLine(Last(L), WS)
    IN  IF l = "" /\ Len(L) > 1 THEN RStripText(Front(L)) ELSE Front(L) \o <<l>>

\* s.lstrip()
RECURSIVE LStripText(_)
LStripText(L) ==
    LET l == LStripLine(Head(L), WS)
    IN  IF l = "" /\ Len(L) > 1 THEN LStripText(Tail(L)) ELSE <<l>> \o Tail(L)

\* s.strip()
StripText(L) == LStripText(RStripText(L))

\* a + b for two strings: the last line of a continues with the first line of b
Concat(A, B) == Front(A) \o <<Last(A) \o Head(B)>> \o Tail(B)

\* '\n'.join(rows) for a non-empty list of one-line strings is the list itself;
\* for the empty list it is the empty string
JoinNL(rows) == IF rows = <<>> THEN <<"">> ELSE rows

\* '\n'.join(parts)-style concatenation of a list of texts with a separator text
RECURSIVE JoinWith(_, _)
JoinWith(parts, sep) ==
    IF parts = <<>> THEN <<"">>
    ELSE IF Len(parts) = 1 THEN parts[1]
    ELSE Concat(Concat(JoinWith(Front(parts), sep), sep), Last(parts))

\* line.replace(tok, R) for one line and a replacement text R
RECURSIVE ReplaceInLine(_, _, _)
ReplaceInLine(l, tok, R) ==
    LET k == IndexOf(l, tok)
    IN  IF k = 0 THEN <<l>>
        ELSE Concat(Concat(<<SubSeq(l, 1, k - 1)>>, R),
                    ReplaceInLine(SubSeq(l, k + Len(tok), Len(l)), tok, R))

\* s.replace(tok, R): the token holds no newline, so it is replaced line by line
RECURSIVE ReplaceAll(_, _, _)
ReplaceAll(L, tok, R) ==
    IF Len(L) = 1 THEN ReplaceInLine(L[1], tok, R)
    ELSE ReplaceAll(Front(L), tok, R) \o ReplaceInLine(Last(L), tok, R)

MinOf(S) == CHOOSE i \in S : \A j \in S : i <= j

MaxOf(S) == CHOOSE i \in S : \A j \in S : j <= i

(***************************************************************************)
(* Section markers (update_profiles.py, lines 52-56)                       *)
(***************************************************************************)
AUTO_UPDATED_SECTIONS == {1, 2, 3, 4}

MANUAL_SECTIONS == {5, 6, 7, 8, 9, 10}

APPEND_ONLY_SECTIONS == {11, 12}

METRICS_TOKEN == "{{METRICS_HISTORY}}"

UPDATE_TOKEN == "{{UPDATE_HISTORY}}"

UPDATE_HEADING == "## Update History"

FOOTER_PREFIX == "*This is a living document"

\* index of the first character at or after i that is not a digit
DigitsEnd(s, i) ==
    LET nd == {j \in i..Len(s) : Ch(s, j) \notin Digits}
    IN  IF nd = {} THEN Len(s) + 1 ELSE MinOf(nd)

\* int(s) for a string of digits
RECURSIVE ParseInt(_)
ParseInt(s) ==
    IF Len(s) = 0 THEN 0
    ELSE 10 * ParseInt(SubSeq(s, 1, Len(s) - 1)) + DigitVal(Ch(s, Len(s)))

\* a pattern that takes every level-2 heading for a numbered one
SECTION_PATTERN_AnyLevel2(l) == StartsWith(l, "## ")

\* SECTION_PATTERN = ^## (\d+)\. (.+)$ matched against one line
SECTION_PATTERN(l) ==
    /\ StartsWith(l, "## ")
    /\ LET e == DigitsEnd(l, 4)
       IN  e > 4 /\ Len(l) >= e + 2 /\ SubSeq(l, e, e + 1) = ". "

\* int(match.group(1))
SectionNum(l) == ParseInt(SubSeq(l, 4, DigitsEnd(l, 4) - 1))

(***************************************************************************)
(* parse_profile_sections                                                  *)
(***************************************************************************)
\* positions of the lines that SECTION_PATTERN matches
HeadingLines(L) == {i \in 1..Len(L) : SECTION_PATTERN(L[i])}

\* positions of the lines that ^## Update History matches
UpdateHeadingLines(L) == {i \in 1..Len(L) : StartsWith(L[i], UPDATE_HEADING)}

\* the end (exclusive) of the span of the section whose heading is line i
SectionEnd(L, i) ==
    LET later == {j \in HeadingLines(L) : j > i}
        upd   == {j \in UpdateHeadingLines(L) : j > i}
    IN  IF later # {} THEN MinOf(later)
        ELSE IF upd # {} THEN MinOf(upd)
        ELSE Len(L) + 1

\* content[start:end].rstrip('\n') + '\n'
SectionText(L, i) == RStripNL(SubSeq(L, i, SectionEnd(L, i) - 1)) \o <<"">>

\* The result of parse_profile_sections: .sections maps section numbers to their
\* text (a later heading with the same number overwrites an earlier one), .keys
\* holds the string keys present, .update_history and .footer their values.
parse_profile_sections(content) ==
    LET H    == HeadingLines(content)
        nums == {SectionNum(content[i]) : i \in H}
        U    == UpdateHeadingLines(content)
        u    == MinOf(U)
        F    == {j \in (u + 1)..Len(content) : StartsWith(content[j], FOOTER_PREFIX)}
    IN  [ sections |->
            [n \in nums |->
                SectionText(content, MaxOf({i \in H : SectionNum(content[i]) = n}))],
          keys |-> (IF U = {} THEN {} ELSE {"update_history"})
                     \cup (IF U # {} /\ F # {} THEN {"footer"} ELSE {}),
          update_history |->
            IF U = {} THEN <<>>
            ELSE IF F # {} THEN RStripNL(SubSeq(content, u, MinOf(F) - 1)) \o <<"">>
            ELSE RStripNL(SubSeq(content, u, Len(content))) \o <<"">>,
          footer |->
            IF U = {} \/ F = {} THEN <<>>
            ELSE StripText(<<"">> \o SubSeq(content, MinOf(F), Len(content))) ]

\* len(sections) of the parse result
SectionCount(content) ==
    LET p == parse_profile_sections(content)
    IN  Cardinality(DOMAIN p.sections) + Cardinality(p.keys)

(***************************************************************************)
(* extract_metrics_history, extract_update_history                         *)
(***************************************************************************)
\* The header line of the table: \|.*?\|.*? for the metrics table, and
\* \|[^\n]+\|[^\n]* for the update table (one character at least between the bars)
HeaderLine(l, upd) ==
    /\ StartsWith(l, "|")
    /\ \E j \in (IF upd THEN 3 ELSE 2)..Len(l) : Ch(l, j) = "|"

\* The last line of the text that \|[-\s|]+\n consumes when it starts at line s,
\* or 0 when it cannot match there.  The class holds the newline, so the match
\* runs greedily over every following line made of dashes, blanks and bars only,
\* and must end before a newline.
SeparatorEnd(L, s) ==
    IF s > Len(L) \/ ~StartsWith(L[s], "|") \/ ~AllIn(L[s], DashChars) THEN 0
    ELSE LET run == {r \in s..Len(L) : \A x \in s..r : AllIn(L[x], DashChars)}
             k   == IF MaxOf(run) = Len(L) THEN Len(L) - 1 ELSE MaxOf(run)
         IN  IF k < s \/ (k = s /\ Len(L[s]) < 2) THEN 0 ELSE k

\* Whether line x is a body row of the captured group: (?:\|.*\n)* for the
\* metrics table, (?:\|[^\n]+\n)* for the update table
RowLine(L, x, upd) ==
    /\ x < Len(L)
    /\ StartsWith(L[x], "|")
    /\ (upd => Len(L[x]) >= 2)

\* the lines of group(1) when the heading is on line i and the separator run
\* ends on line k
TableRows(L, k, upd) ==
    LET rows == {r \in k..Len(L) : \A x \in (k + 1)..r : RowLine(L, x, upd)}
    IN  SubSeq(L, k + 1, MaxOf(rows))

\* the lines at which the whole pattern matches, the heading text being pat
TableMatches(L, pat, upd) ==
    {i \in 1..(Len(L) - 2) :
        /\ Contains(L[i], pat)
        /\ HeaderLine(L[i + 1], upd)
        /\ SeparatorEnd(L, i + 2) > 0}

\* match.group(1).strip().split('\n') of the first match: only the last row can
\* lose characters, the first one starts with a bar
StrippedGroup(rows) ==
    IF rows = <<>> THEN <<"">> ELSE Front(rows) \o <<RStripLine(Last(rows), WS)>>

StripLine(l) == LStripLine(RStripLine(l, WS), WS)

extract_metrics_history(content) ==
    LET M == TableMatches(content, "### Metrics History", FALSE)
    IN  IF M = {} THEN <<>>
        ELSE LET rows == StrippedGroup(
                            TableRows(content, SeparatorEnd(content, MinOf(M) + 2), FALSE))
             IN  SelectSeq(rows, LAMBDA r : StripLine(r) # "" /\ StripLine(r) # METRICS_TOKEN)

extract_update_history(content) ==
    LET M == TableMatches(content, UPDATE_HEADING, TRUE)
    IN  IF M = {} THEN <<>>
        ELSE LET rows == StrippedGroup(
                            TableRows(content, SeparatorEnd(content, MinOf(M) + 2), TRUE))
                 kept == SelectSeq(rows, LAMBDA r : StartsWith(StripLine(r), "|")
                                                    /\ ~Contains(r, UPDATE_TOKEN))
             IN  [x \in 1..Len(kept) |-> StripLine(kept[x])]

(***************************************************************************)
(* generate_metrics_snapshot, should_add_metrics_snapshot                  *)
(*                                                                         *)
(* Analytics data is represented by its "periods" dictionary: a function   *)
(* from period labels to metrics dictionaries (functions from the names of *)
(* the fields present to their values).  A value is represented by the     *)
(* text str() gives for it, which is what the f-string of line 266 writes: *)
(* "10" for 10, "None" for null.  None, a dictionary without "periods"     *)
(* and an empty "periods" are all the empty function: the source tests     *)
(* them with one condition.  A period without "metrics" has the empty      *)
(* metrics dictionary (line 258).                                          *)
(***************************************************************************)
NoAnalytics == <<>>

\* sorted(periods.keys(), reverse=True)[0]
LatestPeriod(periods) ==
    CHOOSE p \in DOMAIN periods : \A q \in DOMAIN periods : q = p \/ StrLess(q, p)

\* metrics.get(key, default) rendered by the f-string
Field(metrics, key, default) ==
    IF key \in DOMAIN metrics THEN metrics[key] ELSE default

\* the texts of the values of a report that are false in a condition: null and 0
Falsy == {"None", "0"}

\* metrics.get(key, 0) without the "or 0" that follows it
FieldOrZero_NoOr(metrics, key) == Field(metrics, key, "0")

\* metrics.get(key, 0) or 0 (lines 262-263) rendered by the f-string
FieldOrZero(metrics, key) ==
    IF Field(metrics, key, "0") \in Falsy THEN "0" ELSE Field(metrics, key, "0")

\* The result is a list of no row (None) or one row.
generate_metrics_snapshot(analytics_data, period) ==
    IF DOMAIN analytics_data = {} THEN <<>>
    ELSE LET target_period == IF period # "" /\ period \in DOMAIN analytics_data
                              THEN period ELSE LatestPeriod(analytics_data)
             metrics == analytics_data[target_period]
         IN  << "| " \o target_period
                \o " | " \o Field(metrics, "prs_merged", "N/A")
                \o " | " \o Field(metrics, "reviews", "N/A")
                \o " | +" \o FieldOrZero(metrics, "lines_added")
                \o "/-" \o FieldOrZero(metrics, "lines_deleted")
                \o " | |" >>

\* should_add_metrics_snapshot without the test of the existing rows
should_add_metrics_snapshot_Always(existing_content, period) == TRUE

should_add_metrics_snapshot(existing_content, period) ==
    LET existing_rows == extract_metrics_history(existing_content)
    IN  \A i \in DOMAIN existing_rows : ~Contains(existing_rows[i], period)

(***************************************************************************)
(* merge_profiles                                                          *)
(***************************************************************************)
\* '\n\n---\n\n'
SEPARATOR == <<"", "", "---", "", "">>

\* re.match(r'^(.*?)(?=## 1\.)', new_content, re.DOTALL), then
\* group(1).rstrip('\n-').strip(): a list of no part or one part
HeaderPart(new_content) ==
    LET hits == {i \in 1..Len(new_content) : Contains(new_content[i], "## 1.")}
        i    == MinOf(hits)
        raw  == SubSeq(new_content, 1, i - 1)
                  \o <<SubSeq(new_content[i], 1, IndexOf(new_content[i], "## 1.") - 1)>>
    IN  IF hits = {} THEN <<>> ELSE <<StripText(RStripNLDash(raw))>>

\* SelectSection with the policy test lost: every section is taken from the
\* existing document when it has it
SelectSection_PreferExisting(section_num, new_sections, existing_sections) ==
    IF section_num \in DOMAIN existing_sections THEN <<existing_sections[section_num]>>
    ELSE IF section_num \in DOMAIN new_sections THEN <<new_sections[section_num]>>
    ELSE <<>>

\* SelectSection without the fall-back to the template text
SelectSection_NoFallback(section_num, new_sections, existing_sections) ==
    IF section_num \in AUTO_UPDATED_SECTIONS
    THEN IF section_num \in DOMAIN new_sections
         THEN <<new_sections[section_num]>> ELSE <<>>
    ELSE IF section_num \in DOMAIN existing_sections
         THEN <<existing_sections[section_num]>> ELSE <<>>

\* the text chosen for section_num: a list of no text or one text
SelectSection(section_num, new_sections, existing_sections) ==
    IF section_num \in AUTO_UPDATED_SECTIONS
    THEN IF section_num \in DOMAIN new_sections
         THEN <<new_sections[section_num]>> ELSE <<>>
    ELSE IF section_num \in MANUAL_SECTIONS \/ section_num \in APPEND_ONLY_SECTIONS
    THEN IF section_num \in DOMAIN existing_sections
         THEN <<existing_sections[section_num]>>
         ELSE IF section_num \in DOMAIN new_sections
         THEN <<new_sections[section_num]>> ELSE <<>>
    ELSE <<>>

\* re.sub(r'\n\*This is a living document.*$', '', text, flags=re.DOTALL)
RemoveFooter(L) ==
    LET F == {j \in 2..Len(L) : StartsWith(L[j], FOOTER_PREFIX)}
    IN  IF F = {} THEN L ELSE SubSeq(L, 1, MinOf(F) - 1)

\* the clean-up of a selected section (lines 325-329)
CleanSection(section_content) ==
    StripText(RemoveFooter(RStripNL(RStripDash(RStripNL(section_content)))))

\* merged_parts after the loop over range(1, 13), from section_num on
RECURSIVE SectionParts(_, _, _)
SectionParts(section_num, new_sections, existing_sections) ==
    IF section_num > 12 THEN <<>>
    ELSE LET sel == SelectSection(section_num, new_sections, existing_sections)
         IN  (IF sel = <<>> THEN <<>> ELSE <<CleanSection(sel[1])>>)
             \o SectionParts(section_num + 1, new_sections, existing_sections)

\* new_snapshot (lines 334-339): a list of no row or one row
NewSnapshot(existing_content, analytics_data) ==
    IF DOMAIN analytics_data = {} THEN <<>>
    ELSE IF should_add_metrics_snapshot(existing_content, LatestPeriod(analytics_data))
    THEN generate_metrics_snapshot(analytics_data, LatestPeriod(analytics_data))
    ELSE <<>>

\* all_metrics_rows (lines 341-345)
AllMetricsRows(existing_content, analytics_data) ==
    NewSnapshot(existing_content, analytics_data) \o extract_metrics_history(existing_content)

\* ", ".join(data_sources_updated)
RECURSIVE JoinComma(_)
JoinComma(names) ==
    IF names = <<>> THEN ""
    ELSE IF Len(names) = 1 THEN names[1]
    ELSE JoinComma(Front(names)) \o ", " \o Last(names)

\* new_update_row without the label that stands for an empty list of sources
NewUpdateRow_NoDefault(data_sources_updated, today) ==
    "| " \o today \o " | Profile refreshed | " \o JoinComma(data_sources_updated) \o " |"

\* new_update_row (lines 359-361); today is datetime.now().strftime("%Y-%m-%d")
NewUpdateRow(data_sources_updated, today) ==
    "| " \o today \o " | Profile refreshed | "
         \o (IF data_sources_updated # <<>> THEN JoinComma(data_sources_updated)
             ELSE "Auto-refresh")
         \o " |"

\* all_update_rows (line 364)
AllUpdateRows(existing_content, data_sources_updated, today) ==
    <<NewUpdateRow(data_sources_updated, today)>> \o extract_update_history(existing_content)

FOOTER_LINE ==
    "*This is a living document. Sections marked AUTO-UPDATED refresh automatically. Sections marked MANUAL or APPEND-ONLY require human input.*"

\* update_history_section (lines 368-379)
UpdateHistorySection(all_update_rows) ==
    << UPDATE_HEADING,
       "",
       "<!-- AUTO-APPENDED: Log of each profile update -->",
       "",
       "| Date | Changes | Data Sources Refreshed |",
       "|------|---------|------------------------|" >>
    \o JoinNL(all_update_rows)
    \o << "", "---", "", FOOTER_LINE, "" >>

\* One match of (\n---\n\n)+ begins with the newline before a line "---" that is
\* followed by an empty line and a further line; it goes on over every following
\* group of lines "", "---", "" that a further line follows.  SepRunEnd is the
\* first line after the match.
SepAt(L, i) == i >= 2 /\ i + 2 <= Len(L) /\ L[i] = "---" /\ L[i + 1] = ""

RECURSIVE SepRunEnd(_, _)
SepRunEnd(L, e) ==
    IF e + 3 <= Len(L) /\ L[e] = "" /\ L[e + 1] = "---" /\ L[e + 2] = ""
    THEN SepRunEnd(L, e + 3) ELSE e

\* re.sub(r'(\n---\n\n)+', '\n\n---\n\n', text) from line i on; lo is the first
\* line at which a match may begin (matches do not overlap)
RECURSIVE CollapseFrom(_, _, _)
CollapseFrom(L, i, lo) ==
    IF i > Len(L) THEN <<>>
    ELSE IF i >= lo /\ SepAt(L, i)
    THEN LET e == SepRunEnd(L, i + 2)
         IN  <<"", "---", "">> \o CollapseFrom(L, e, e + 1)
    ELSE <<L[i]>> \o CollapseFrom(L, i + 1, lo)

CollapseSeparators(L) == CollapseFrom(L, 1, 2)

\* re.sub(r'^---\n', '', text)
DropLeadingSeparator(L) ==
    IF Len(L) >= 2 /\ L[1] = "---" THEN Tail(L) ELSE L

merge_profiles(new_content, existing_content, data_sources_updated, analytics_data, today) ==
    LET new_sections      == parse_profile_sections(new_content).sections
        existing_sections == parse_profile_sections(existing_content).sections
        merged_parts      == HeaderPart(new_content)
                               \o SectionParts(1, new_sections, existing_sections)
        joined            == JoinWith(merged_parts, SEPARATOR)
        with_metrics      == ReplaceAll(joined, METRICS_TOKEN,
                                 JoinNL(AllMetricsRows(existing_content, analytics_data)))
        with_history      == Concat(Concat(with_metrics, SEPARATOR),
                                 UpdateHistorySection(
                                     AllUpdateRows(existing_content, data_sources_updated, today)))
    IN  DropLeadingSeparator(CollapseSeparators(with_history))

(***************************************************************************)
(* Documents.  The fresh document is the rendering of the template: a      *)
(* header, numbered sections in ascending order closed by a rule, the      *)
(* Update History block and the footer.  The existing document is a file   *)
(* a person may have edited: sections may be missing, a section may hold a *)
(* horizontal rule or end without the closing rule, and a table may follow *)
(* its heading directly or after a blank line (the layout of the tables    *)
(* the formatters of this script and merge_profiles itself write).         *)
(***************************************************************************)
RULE == <<"", "---", "">>

TABLE_HEAD(spaced) ==
    (IF spaced THEN <<"">> ELSE <<>>)
    \o << "| Period | PRs | Reviews | Lines | Notes |",
          "|--------|-----|---------|-------|-------|" >>

UPDATE_HEAD(spaced) ==
    (IF spaced THEN <<"", "<!-- AUTO-APPENDED: Log of each profile update -->", "">> ELSE <<>>)
    \o << "| Date | Changes | Data Sources Refreshed |",
          "|------|---------|------------------------|" >>

\* the numbered sections of the template that fresh documents are rendered from
FreshSection(n, spaced) ==
    CASE n = 1  -> <<"## 1. Profile Overview", "Role: Engineer">> \o RULE
      [] n = 2  -> <<"## 2. Delivery Performance", "PRs merged: 7", "", "### Metrics History">>
                   \o TABLE_HEAD(spaced) \o <<METRICS_TOKEN>> \o RULE
      [] n = 5  -> <<"## 5. Leadership Values", "To be assessed">> \o RULE
      [] n = 11 -> <<"## 11. 1:1 Notes", "No notes yet">> \o RULE
      [] OTHER  -> <<>>

\* a profile template holding the sections of secs
Template(secs, spaced) ==
    <<"# Profile: {{NAME}}", "Email: {{EMAIL}}">> \o RULE
    \o (IF 1 \in secs THEN FreshSection(1, spaced) ELSE <<>>)
    \o (IF 2 \in secs THEN FreshSection(2, spaced) ELSE <<>>)
    \o (IF 5 \in secs THEN FreshSection(5, spaced) ELSE <<>>)
    \o (IF 11 \in secs THEN FreshSection(11, spaced) ELSE <<>>)
    \o <<UPDATE_HEADING>> \o UPDATE_HEAD(TRUE) \o <<UPDATE_TOKEN>> \o RULE
    \o <<FOOTER_LINE, "">>

\* generate_profile: the template with its placeholders replaced (lines 873-916).
\* Of the simple placeholders the model has {{NAME}} and {{EMAIL}}; the others are
\* replaced the same way by values of the engagement data.  Both keys are read
\* from the member, which raises KeyError when one is missing: the callers test
\* that before they use the result.
generate_profile(member, template) ==
    ReplaceAll(ReplaceAll(template, "{{NAME}}", <<member.name>>), "{{EMAIL}}", <<member.email>>)

\* the i-th configured team member
Member(i) ==
    [ name         |-> "member" \o ToString(i),
      email        |-> "member" \o ToString(i) \o "@example.org",
      profile_file |-> "member" \o ToString(i) \o ".md" ]

FreshDocs ==
    { generate_profile(Member(1), Template({1, 2, 5, 11}, TRUE)),
      generate_profile(Member(1), Template({1, 2, 5, 11}, FALSE)),
      generate_profile(Member(1), Template({1, 11}, TRUE)) }

\* the period labels of the analytics reports, in the order the reports arrive
PeriodFeed == <<"2025-12", "2026-01">>

\* the metrics of the report of each period: the second one lacks fields
PeriodMetrics(p) ==
    IF p = "2025-12"
    THEN [prs_merged |-> "10", reviews |-> "5", lines_added |-> "200", lines_deleted |-> "50"]
    ELSE [prs_merged |-> "15", lines_added |-> "500"]

\* analytics data holding the first k reports
AnalyticsUpTo(k) == [p \in {PeriodFeed[i] : i \in 1..k} |-> PeriodMetrics(p)]

\* bodies of the hand-edited section n, by kind: "plain" is closed by a rule,
\* "rule" holds a horizontal rule of its own, "dash" is not closed by a rule and
\* its last line ends in a dash
EditedBody(n, kind) ==
    CASE kind = "plain" -> <<"Entry " \o ToString(n), "- mentors two juniors">> \o RULE
      [] kind = "rule"  -> <<"Entry " \o ToString(n), "---", "", "Q3: runs the incident review">>
                           \o RULE
      [] kind = "dash"  -> <<"Entry " \o ToString(n), "Rating: B-">>
      [] OTHER          -> <<>>


ExistingSection(n, title, kind) ==
    IF kind = "absent" THEN <<>>
    ELSE <<"## " \o ToString(n) \o ". " \o title>> \o EditedBody(n, kind)

\* the first k rows of an older metrics table, the newest first
OldMetricsRows(k) ==
    SubSeq(<<"| 2025-12 | 10 | 5 | +200/-50 | |",
             "| 2025-11 | 4 | 2 | +90/-10 | slow month |",
             "| 2025-10 | 6 | 3 | +120/-30 | |">>, 1, k)

\* rows of an older update table
OldUpdateRows(k) ==
    SubSeq(<<"| 2025-11-20 | Profile refreshed | slack |",
             "| 2025-10-01 | Profile created | Initial creation |",
             "| 2025-09-01 | Imported | Manual |">>, 1, k)

ExistingDoc(k5, k11, mrows, mspaced, urows, uspaced) ==
    <<"# Profile: member1", "Email: old@example.org">> \o RULE
    \o <<"## 1. Profile Overview", "Role: Intern">> \o RULE
    \o <<"## 2. Delivery Performance", "PRs merged: 3", "", "### Metrics History">>
    \o TABLE_HEAD(mspaced) \o OldMetricsRows(mrows) \o RULE
    \o ExistingSection(5, "Leadership Values", k5)
    \o ExistingSection(11, "1:1 Notes", k11)
    \o <<UPDATE_HEADING>> \o UPDATE_HEAD(uspaced) \o OldUpdateRows(urows) \o RULE
    \o <<FOOTER_LINE, "">>

\* the greatest number of rows of each table of an initial existing document
MaxRows == 1

\* the greatest number of merges in a behaviour
MaxMerges == 2

\* the kinds of section 5 and of section 11 of the initial existing documents
SectionKinds ==
    { <<"plain", "plain">>, <<"absent", "plain">>, <<"plain", "absent">>,
      <<"absent", "absent">>, <<"rule", "plain">>, <<"dash", "plain">>,
      <<"plain", "dash">> }

\* both tables of an existing document have the same layout and as many rows
ExistingDocs ==
    {ExistingDoc(k[1], k[2], rows, spaced, rows, spaced) :
        k \in SectionKinds, rows \in 0..MaxRows, spaced \in BOOLEAN}

\* the inputs of one run that the caller and the clock choose: the data sources
\* refreshed and the day
RunInputs ==
    { [sources |-> <<"slack", "analytics">>, today |-> "2026-02-01"],
      [sources |-> <<>>, today |-> "2026-02-02"] }

(***************************************************************************)
(* State                                                                   *)
(***************************************************************************)
VARIABLES
    fresh,      \* new_content: the document generate_profile renders
    docs,       \* the contents of the profile file: docs[1] is the initial file,
                \* docs[k + 1] the file after the k-th merge
    runs,       \* the inputs of each merge performed
    analytics,  \* the analytics data on disk
    team,       \* config["team_members"] of a batch
    mode,       \* the arguments force, init and regenerate of a batch
    files,      \* the profiles directory: file name -> content, NoFile when absent
    idx,        \* the position of the loop of update_all_profiles in team
    results,    \* the results dictionary of update_all_profiles
    trace,      \* the calls of update_profile made so far, with their outcomes
    pc,         \* "loop" while update_all_profiles runs, "done" once it has returned
    before,     \* the profiles directory as it was when the batch started
    pending,    \* the calls of update_profile that have read and not yet written
    render,     \* the last call of a section formatter: its argument and its result
    fetch,      \* the activation of fetch_all_team_data: emails, position, results
    paging      \* the activation of a paginated request loop: requests, responses, records

mergeVars == <<fresh, docs, runs>>

batchVars == <<team, mode, files, idx, results, trace, pc, before, pending>>

callVars == <<render, fetch, paging>>

vars == <<fresh, docs, runs, analytics, team, mode, files, idx, results, trace, pc, before,
          pending, render, fetch, paging>>

\* no formatter has been called and fetch_all_team_data is not running
NoCall == <<>>

CallsIdle == render = NoCall /\ fetch = NoCall /\ paging = NoCall

\* no batch runs
BatchIdle ==
    /\ before = <<>>
    /\ pending = <<>>
    /\ CallsIdle
    /\ team = <<>>
    /\ mode = [force |-> FALSE, init |-> FALSE, regenerate |-> FALSE]
    /\ files = <<>>
    /\ idx = 1
    /\ results = [updated |-> <<>>, skipped |-> <<>>, errors |-> <<>>]
    /\ trace = <<>>
    /\ pc = "done"

Init ==
    /\ fresh \in FreshDocs
    /\ \E e \in ExistingDocs : docs = <<e>>
    /\ runs = <<>>
    /\ analytics = NoAnalytics
    /\ BatchIdle

\* one incremental update of the profile: the file is replaced by the merge of the
\* fresh document with it
Merge(in) ==
    /\ Len(runs) < MaxMerges
    /\ runs # <<>> => ~StrLess(in.today, Last(runs).today)
    /\ docs' = Append(docs, merge_profiles(fresh, Last(docs), in.sources, analytics, in.today))
    /\ runs' = Append(runs, [sources |-> in.sources, analytics |-> analytics, today |-> in.today])
    /\ UNCHANGED <<fresh, analytics, batchVars, callVars>>

\* the report of the next period arrives
NewPeriod ==
    /\ Cardinality(DOMAIN analytics) < Len(PeriodFeed)
    /\ analytics' = AnalyticsUpTo(Cardinality(DOMAIN analytics) + 1)
    /\ UNCHANGED <<fresh, docs, runs, batchVars, callVars>>

Next ==
    \/ \E in \in RunInputs : Merge(in)
    \/ NewPeriod

Spec == Init /\ [][Next]_vars

(***************************************************************************)
(* update_profile and update_all_profiles                                  *)
(***************************************************************************)
\* the content of a profile file that does not exist
NoFile == <<>>

\* the init mode conflict check without its test of the file
InitConflict_Never(init, exists, force) == FALSE

\* the init mode conflict check (line 985)
InitConflict(init, exists, force) == init /\ exists /\ ~force

\* initial_row (lines 1036-1050)
InitialRow(exists, data_sources, regenerate, init, today) ==
    "| " \o today \o " | "
         \o (IF regenerate /\ exists THEN "Profile regenerated from template"
             ELSE IF init THEN "Profile initialized"
             ELSE "Profile created")
         \o " | "
         \o (IF data_sources # <<>> THEN JoinComma(data_sources) ELSE "Initial creation")
         \o " |"

\* profile_content of a new, initialized or regenerated profile (lines 1033-1058)
CreatedContent(new_content, exists, data_sources, regenerate, init, analytics_data, today) ==
    LET with_row == ReplaceAll(new_content, UPDATE_TOKEN,
                               <<InitialRow(exists, data_sources, regenerate, init, today)>>)
    IN  IF DOMAIN analytics_data # {}
        THEN ReplaceAll(with_row, METRICS_TOKEN,
                        generate_metrics_snapshot(analytics_data, LatestPeriod(analytics_data)))
        ELSE with_row

\* the removal of the remaining placeholders (lines 1060-1062)
CleanPlaceholders(profile_content) ==
    ReplaceAll(ReplaceAll(profile_content, METRICS_TOKEN, <<"">>), UPDATE_TOKEN, <<"">>)

\* should_merge computed without regard to regenerate
ShouldMerge_IgnoreRegenerate(exists, regenerate, init) == exists /\ ~init

\* should_merge (line 1007)
ShouldMerge(exists, regenerate, init) == exists /\ ~regenerate /\ ~init

\* the structure check with a threshold of 3 in place of 2
DriftWarning_Above3(existing_content, new_content) ==
    /\ SectionCount(existing_content) > 0
    /\ SectionCount(new_content) > 0
    /\ \/ SectionCount(existing_content) - SectionCount(new_content) > 3
       \/ SectionCount(new_content) - SectionCount(existing_content) > 3

\* the warning about a changed template structure is printed (lines 1018-1021)
DriftWarning(existing_content, new_content) ==
    /\ SectionCount(existing_content) > 0
    /\ SectionCount(new_content) > 0
    /\ \/ SectionCount(existing_content) - SectionCount(new_content) > 2
       \/ SectionCount(new_content) - SectionCount(existing_content) > 2

\* the merge branch with force writing the generated document over the file
MergedContent_ForceOverwrites(force, new_content, existing_content, data_sources, analytics_data, today) ==
    IF force
    THEN new_content
    ELSE merge_profiles(new_content, existing_content, data_sources, analytics_data, today)

\* profile_content of the merge branch (lines 1023-1031): with force and without
\* it, the merge of the generated document and the existing one
MergedContent(force, new_content, existing_content, data_sources, analytics_data, today) ==
    IF force
    THEN merge_profiles(new_content, existing_content, data_sources, analytics_data, today)
    ELSE merge_profiles(new_content, existing_content, data_sources, analytics_data, today)

\* update_profile: existing is the content of the member's profile file, NoFile
\* when there is none.  The result is the value returned ("True", "False", or
\* "raise" when an exception leaves the function) and the content written to the
\* file (NoFile when nothing is written), with merged telling whether merge_profiles
\* was called and warned whether the structure warning was printed.  A member without "profile_file" raises
\* KeyError at line 980, one without "email" where generate_profile or the init
\* branch reads it (lines 790 and 995), after the conflict check.
update_profile(member, template, existing, force, data_sources, regenerate, init, analytics_data, today) ==
    LET exists       == existing # NoFile
        new_content  == generate_profile(member, template)
        should_merge == ShouldMerge(exists, regenerate, init)
    IN  IF "profile_file" \notin DOMAIN member
        THEN [outcome |-> "raise", written |-> NoFile, merged |-> FALSE, warned |-> FALSE]
        ELSE IF InitConflict(init, exists, force)
        THEN [outcome |-> "False", written |-> NoFile, merged |-> FALSE, warned |-> FALSE]
        ELSE IF "email" \notin DOMAIN member
        THEN [outcome |-> "raise", written |-> NoFile, merged |-> FALSE, warned |-> FALSE]
        ELSE [outcome |-> "True",
              merged  |-> should_merge,
              warned  |-> should_merge /\ DriftWarning(existing, new_content),
              written |-> CleanPlaceholders(
                  IF should_merge
                  THEN MergedContent(force, new_content, existing, data_sources,
                                     analytics_data, today)
                  ELSE CreatedContent(new_content, exists, data_sources, regenerate,
                                      init, analytics_data, today))]

\* the body of the loop of update_all_profiles without the except clause: a call
\* that raises is not recorded
Record_DropErrors(res, member, outcome) ==
    CASE outcome = "True"  -> [res EXCEPT !.updated = Append(@, member.name)]
      [] outcome = "False" -> [res EXCEPT !.skipped = Append(@, member.name)]
      [] OTHER             -> res

\* the recording of one call in results (lines 1102-1109); an entry of "errors"
\* is a dictionary, of which the model keeps the name
Record(res, member, outcome) ==
    CASE outcome = "True"  -> [res EXCEPT !.updated = Append(@, member.name)]
      [] outcome = "False" -> [res EXCEPT !.skipped = Append(@, member.name)]
      [] OTHER             -> [res EXCEPT !.errors = Append(@, member.name)]

\* the greatest number of team members of a batch
MaxMembers == 3

\* the template of the batch, its data sources, its day, and the profile that
\* exists before it
BatchTemplate == Template({1, 2, 5, 11}, TRUE)

BatchSources == <<"slack">>

BatchDay == "2026-02-01"

OldProfile == ExistingDoc("plain", "plain", 1, TRUE, 1, TRUE)

\* the configuration entry of member i: "whole", or without one of the keys
ConfigEntry(i, defect) ==
    IF defect = "no_profile_file"
    THEN [name |-> Member(i).name, email |-> Member(i).email]
    ELSE IF defect = "no_email"
    THEN [name |-> Member(i).name, profile_file |-> Member(i).profile_file]
    ELSE Member(i)

\* A batch starts: n members, at most one of them with an incomplete entry, any of
\* their profiles on disk, any mode.
InitBatch ==
    /\ fresh = <<"">>
    /\ docs = <<>>
    /\ runs = <<>>
    /\ analytics = AnalyticsUpTo(1)
    /\ \E n \in 1..MaxMembers :
         /\ \E bad \in 0..n, defect \in {"no_profile_file", "no_email"} :
              team = [i \in 1..n |-> ConfigEntry(i, IF i = bad THEN defect ELSE "whole")]
         /\ \E present \in SUBSET (1..n) :
              files = [f \in {Member(i).profile_file : i \in 1..n} |->
                         IF \E i \in present : Member(i).profile_file = f
                         THEN OldProfile ELSE NoFile]
    /\ before = files
    /\ pending = <<>>
    /\ CallsIdle
    /\ mode \in [force : BOOLEAN, init : BOOLEAN, regenerate : BOOLEAN]
    /\ idx = 1
    /\ results = [updated |-> <<>>, skipped |-> <<>>, errors |-> <<>>]
    /\ trace = <<>>
    /\ pc = "loop"

\* a write that goes to the first file of the directory, whatever the member
WriteProfile_SharedPath(dir, member, written) ==
    IF written # NoFile
    THEN [dir EXCEPT ![CHOOSE f \in DOMAIN dir : \A g \in DOMAIN dir : f = g \/ StrLess(f, g)]
                        = written]
    ELSE dir

\* the profiles directory after update_profile has written (lines 1068-1069), or
\* as it was when the call wrote nothing
WriteProfile(dir, member, written) ==
    IF written # NoFile THEN [dir EXCEPT ![member.profile_file] = written] ELSE dir

\* the content of the profile file of a member before the call
FileOf(member) ==
    IF "profile_file" \in DOMAIN member THEN files[member.profile_file] ELSE NoFile

\* one iteration of the loop of update_all_profiles: the call of update_profile for
\* the next member, its write, and the recording of its outcome
ProcessMember ==
    /\ pc = "loop"
    /\ idx <= Len(team)
    /\ LET member == team[idx]
           r == update_profile(member, BatchTemplate, FileOf(member), mode.force,
                               BatchSources, mode.regenerate, mode.init, analytics,
                               BatchDay)
       IN  /\ files' = WriteProfile(files, member, r.written)
           /\ results' = Record(results, member, r.outcome)
           /\ trace' = Append(trace, [name |-> member.name, outcome |-> r.outcome,
                                      existed |-> FileOf(member) # NoFile,
                                      merged |-> r.merged,
                                      warned |-> r.warned,
                                      wrote |-> r.written # NoFile])
    /\ idx' = idx + 1
    /\ UNCHANGED <<mergeVars, analytics, team, mode, pc, before, pending, callVars>>

\* update_all_profiles returns results after the last member
ReturnResults ==
    /\ pc = "loop"
    /\ idx > Len(team)
    /\ pc' = "done"
    /\ UNCHANGED <<mergeVars, analytics, team, mode, files, idx, results, trace, before, pending,
                   callVars>>

NextBatch == ProcessMember \/ ReturnResults

SpecBatch == InitBatch /\ [][NextBatch]_vars

(***************************************************************************)
(* Properties of the merge                                                 *)
(***************************************************************************)
Sections(doc) == parse_profile_sections(doc).sections

\* The table a reader of the document sees beneath the first heading holding pat:
\* the body rows (all but the header and the separator line) of the first block
\* of lines starting with a bar that follows the heading before any other heading.
ShownTable(L, pat) ==
    LET hs == {i \in 1..Len(L) : Contains(L[i], pat)}
        h  == MinOf(hs)
        bars  == {j \in (h + 1)..Len(L) : StartsWith(L[j], "|")}
        heads == {j \in (h + 1)..Len(L) : StartsWith(L[j], "#")}
        b  == MinOf(bars)
        e  == MaxOf({r \in b..Len(L) : \A x \in b..r : StartsWith(L[x], "|")})
    IN  IF hs = {} THEN <<>>
        ELSE IF bars = {} \/ (heads # {} /\ MinOf(heads) < b) THEN <<>>
        ELSE SubSeq(L, b + 2, e)

UpdateTable(doc) == ShownTable(doc, UPDATE_HEADING)

MetricsTable(doc) == ShownTable(doc, "### Metrics History")

\* the number of rows of a table that mention the period
Mentions(table, period) == Cardinality({i \in DOMAIN table : Contains(table[i], period)})

\* a section text without its closing rule and the blank lines around it
RECURSIVE DropClosing(_)
DropClosing(L) ==
    IF Len(L) > 1 /\ StripLine(Last(L)) \in {"", "---"} THEN DropClosing(Front(L)) ELSE L

Trimmed(L) == StripText(DropClosing(L))

\* the lines of a section text that carry content
BodyLines(L) == {L[i] : i \in DOMAIN L} \ {"", "---"}

\* the number of heading lines of section n in a document
HeadingCount(doc, n) ==
    Cardinality({i \in HeadingLines(doc) : SectionNum(doc[i]) = n})

\* L without its i-th line
RemoveAt(L, i) == SubSeq(L, 1, i - 1) \o SubSeq(L, i + 1, Len(L))

\* The last merge of a behaviour took Existing to Merged.  Every merge is the last
\* one in the state it leads to, so a property of the last merge that holds in
\* every reachable state holds of every merge.
Merged == Last(docs)

Existing == docs[Len(docs) - 1]

LastRun == Last(runs)

\* C1: the Update History table of the merged document has exactly one more body
\* row than the table of the existing document, the new row first and the old rows
\* after it in their order, also when the existing document is an earlier output of
\* the merge.
C1_UpdateHistoryGrowsByOne ==
    runs # <<>> =>
        /\ Len(UpdateTable(Merged)) = Len(UpdateTable(Existing)) + 1
        /\ Tail(UpdateTable(Merged)) = UpdateTable(Existing)

\* C2: every section 5..10 of the existing document has the same text in the merged
\* document, up to leading and trailing whitespace, whatever its body lines are.
C2_ManualSectionsPreserved ==
    runs # <<>> =>
        LET E == Sections(Existing)
            O == Sections(Merged)
        IN  \A n \in MANUAL_SECTIONS \cap DOMAIN E :
                n \in DOMAIN O /\ Trimmed(O[n]) = Trimmed(E[n])

\* C3: after any number of successive merges every body line that section 11 or 12
\* held in the original document is still in that section.
C3_AppendOnlyNeverLost ==
    LET E == Sections(docs[1])
        O == Sections(Merged)
    IN  \A n \in APPEND_ONLY_SECTIONS \cap DOMAIN E :
            n \in DOMAIN O /\ BodyLines(E[n]) \subseteq BodyLines(O[n])

\* C4: a second merge with the same fresh document, sources, analytics and day
\* yields the first output with one more row in the Update History table and no
\* other difference.
C4_MergeIdempotent ==
    (Len(runs) >= 2 /\ LastRun = runs[Len(runs) - 1]) =>
        \E i \in 1..Len(Merged) :
            StartsWith(Merged[i], "|") /\ RemoveAt(Merged, i) = Existing

\* C5: if the Metrics History table of the original document has at most one row
\* mentioning period P and every merge so far had P as the latest analytics period,
\* the Metrics History table of the document has at most one row mentioning P.
C5_NoDuplicatePeriod ==
    LET first == MetricsTable(docs[1])
        now   == MetricsTable(Merged)
    IN  \A i \in DOMAIN PeriodFeed :
            ( /\ runs # <<>>
              /\ Mentions(first, PeriodFeed[i]) <= 1
              /\ \A j \in DOMAIN runs : /\ DOMAIN runs[j].analytics # {}
                                        /\ LatestPeriod(runs[j].analytics) = PeriodFeed[i] )
            => Mentions(now, PeriodFeed[i]) <= 1

\* C5 witness: two merges saw the same latest period, which the original table did
\* not mention; the first added its row, the second found it and added none.
C5_Witness ==
    /\ Len(runs) = 2
    /\ DOMAIN runs[1].analytics # {}
    /\ runs[2].analytics = runs[1].analytics
    /\ Mentions(MetricsTable(docs[1]), LatestPeriod(runs[1].analytics)) = 0
    /\ Mentions(extract_metrics_history(docs[2]), LatestPeriod(runs[1].analytics)) = 1
    /\ Mentions(MetricsTable(docs[3]), LatestPeriod(runs[1].analytics)) = 1

\* C6: with R1..Rk the body rows of the Metrics History table of the existing
\* document, the table of the merged document is the new snapshot row followed by
\* R1..Rk when there is analytics data whose latest period no Ri mentions, and
\* R1..Rk otherwise (the fresh document holding the table).
C6_MetricsConsolidated ==
    (runs # <<>> /\ \E i \in DOMAIN fresh : fresh[i] = METRICS_TOKEN) =>
        LET old == MetricsTable(Existing)
            new == MetricsTable(Merged)
            A   == LastRun.analytics
        IN  IF DOMAIN A # {} /\ Mentions(old, LatestPeriod(A)) = 0
            THEN /\ Len(new) = Len(old) + 1
                 /\ Contains(new[1], LatestPeriod(A))
                 /\ Tail(new) = old
            ELSE new = old

\* C7: a section 5..12 that the existing document lacks and the fresh document has
\* is in the output exactly once, with the fresh text; one that both lack is not
\* in the output.
C7_TemplateFallback ==
    runs # <<>> =>
        LET E == Sections(Existing)
            F == Sections(fresh)
            O == Sections(Merged)
        IN  \A n \in (MANUAL_SECTIONS \cup APPEND_ONLY_SECTIONS) \ DOMAIN E :
                IF n \in DOMAIN F
                THEN HeadingCount(Merged, n) = 1 /\ Trimmed(O[n]) = Trimmed(F[n])
                ELSE HeadingCount(Merged, n) = 0

\* C7 witness: a merge of a document without section 5 with a fresh document that
\* has it, and of a document without section 11 and section 12.
C7_Witness ==
    /\ Len(runs) = 1
    /\ 5 \notin DOMAIN Sections(docs[1])
    /\ 11 \notin DOMAIN Sections(docs[1])
    /\ 5 \in DOMAIN Sections(fresh)
    /\ 5 \in DOMAIN Sections(docs[2])
    /\ 12 \notin DOMAIN Sections(docs[2])

\* the lines of a section text other than blank lines, the metrics placeholder
\* and the rows of the metrics table
Essential(text, rows) ==
    SelectSeq(Trimmed(text),
              LAMBDA l : l # "" /\ l # METRICS_TOKEN /\ \A i \in DOMAIN rows : rows[i] # l)

\* C8: the output has section n of 1..4 exactly when the fresh document has it, with
\* the fresh text (but for the placeholder substitution and the closing rule), and
\* no line of the existing text of such a section other than carried-over table
\* rows is in the output.
C8_AutoSectionsFromFresh ==
    runs # <<>> =>
        LET E == Sections(Existing)
            F == Sections(fresh)
            O == Sections(Merged)
            rows  == MetricsTable(Merged)
            given == {fresh[i] : i \in DOMAIN fresh}
            out   == {Merged[i] : i \in DOMAIN Merged}
        IN  \A n \in AUTO_UPDATED_SECTIONS :
                /\ n \in DOMAIN O <=> n \in DOMAIN F
                /\ n \in DOMAIN F => Essential(O[n], rows) = Essential(F[n], <<>>)
                /\ n \in DOMAIN E =>
                     \A l \in BodyLines(E[n]) \ given : StartsWith(l, "|") \/ l \notin out

\* C8 witness: the existing document has section 2 with its own text, the fresh
\* document has no section 2, and the merged document has section 1 only.
C8_Witness ==
    /\ Len(runs) = 1
    /\ 2 \in DOMAIN Sections(docs[1])
    /\ 2 \notin DOMAIN Sections(fresh)
    /\ DOMAIN Sections(docs[2]) \cap AUTO_UPDATED_SECTIONS = {1}

(***************************************************************************)
(* Properties of the batch                                                 *)
(***************************************************************************)
\* the members whose call of update_profile has returned or raised
Called == 1..Len(trace)

\* how often a name occurs in a list
Occurrences(list, name) == Cardinality({i \in DOMAIN list : list[i] = name})

\* the file of a member is as it was before the batch
Untouched(k) ==
    files[team[k].profile_file] = (IF trace[k].existed THEN OldProfile ELSE NoFile)

\* C9: with init and without force, update_profile of a member whose profile
\* exists returns False and writes nothing, the member is not listed as updated,
\* and the batch goes on to call update_profile for every remaining member.
C9_InitConflictSkipped ==
    /\ \A k \in Called :
         (mode.init /\ ~mode.force /\ trace[k].existed) =>
            /\ trace[k].outcome = "False"
            /\ ~trace[k].wrote
            /\ Untouched(k)
            /\ Occurrences(results.updated, team[k].name) = 0
            /\ Occurrences(results.skipped, team[k].name) = 1
    /\ pc = "done" => Len(trace) = Len(team)

\* C9 witness: the batch has returned; a member whose profile existed was skipped
\* and a later member was updated.
C9_Witness ==
    /\ pc = "done"
    /\ mode.init /\ ~mode.force
    /\ \E k \in Called, l \in Called :
         /\ k < l
         /\ trace[k].existed /\ trace[k].outcome = "False"
         /\ trace[l].outcome = "True" /\ trace[l].wrote

Generated(k) == generate_profile(team[k], BatchTemplate)

\* the profile file of the k-th member of the batch
ProfileOf(k) == files[team[k].profile_file]

\* the lines of a document
LinesOf(doc) == {doc[i] : i \in DOMAIN doc}

\* C11: a call of update_profile with regenerate that returns True does not call
\* merge_profiles; the file it writes is the generated document with its
\* placeholders filled by one Update History row and the metrics rows, and no body
\* line of a section 5..12 of the previous file is in it unless the generated
\* document has that line.
C11_RegenerateBypassesMerge ==
    \A k \in Called :
        (mode.regenerate /\ trace[k].outcome = "True") =>
            LET file == ProfileOf(k)
                G    == Generated(k)
                old  == Sections(OldProfile)
                ms   == MetricsTable(file)
            IN  /\ ~trace[k].merged
                /\ Len(UpdateTable(file)) = 1
                /\ Contains(UpdateTable(file)[1],
                            IF trace[k].existed THEN "Profile regenerated from template"
                            ELSE IF mode.init THEN "Profile initialized"
                            ELSE "Profile created")
                /\ file = ReplaceAll(ReplaceAll(G, UPDATE_TOKEN, UpdateTable(file)),
                                     METRICS_TOKEN, IF ms = <<>> THEN <<"">> ELSE ms)
                /\ trace[k].existed =>
                     \A n \in (MANUAL_SECTIONS \cup APPEND_ONLY_SECTIONS) \cap DOMAIN old :
                         (LinesOf(file) \cap BodyLines(old[n])) \subseteq LinesOf(G)

\* C11 witness: a profile whose sections 5 and 11 were edited by hand has been
\* regenerated, and the edits are in the old file but not in the new one.
C11_Witness ==
    \E k \in Called :
        /\ mode.regenerate /\ trace[k].existed /\ trace[k].outcome = "True"
        /\ "- mentors two juniors" \in BodyLines(Sections(OldProfile)[5])
        /\ "- mentors two juniors" \in BodyLines(Sections(OldProfile)[11])
        /\ "- mentors two juniors" \notin LinesOf(ProfileOf(k))
        /\ Len(UpdateTable(ProfileOf(k))) = 1

(***************************************************************************)
(* Documents of any structure.  merge_profiles and the parsers take any    *)
(* text: a document here is a sequence of at most MaxBlocks blocks in any  *)
(* order, a block being some header text, a numbered section (inside or    *)
(* outside 1..12), an Update History table, a horizontal rule or the       *)
(* footer.                                                                 *)
(***************************************************************************)
\* the greatest number of blocks of such a document
MaxBlocks == 3

BlockPool ==
    << <<"# Profile: member1", "Level: IC4 -">>,
       <<"## 1. Profile Overview", "Role: Lead">>,
       <<"## 5. Leadership Values", "Entry 5">>,
       <<"## 13. Appendix", "Entry 13">>,
       <<UPDATE_HEADING>> \o UPDATE_HEAD(FALSE) \o <<"| 2025-01-01 | Profile created | x |">>,
       RULE,
       <<FOOTER_LINE>> >>

\* the text made of the blocks bs; without blocks it is the empty text
RECURSIVE BlockDoc(_)
BlockDoc(bs) ==
    IF bs = <<>> THEN <<"">>
    ELSE IF Len(bs) = 1 THEN BlockPool[bs[1]]
    ELSE BlockPool[bs[1]] \o BlockDoc(Tail(bs))

AnyDocs == {BlockDoc(bs) : bs \in UNION {[1..k -> DOMAIN BlockPool] : k \in 0..MaxBlocks}}

PlainFresh == generate_profile(Member(1), Template({1, 2, 5, 11}, TRUE))

\* One merge of two documents of which one has any structure: the fresh one, with
\* an existing profile of the usual shape, or the existing one, with a fresh
\* document of the usual shape.
InitAny ==
    /\ \/ fresh \in AnyDocs /\ docs = <<OldProfile>>
       \/ fresh = PlainFresh /\ \E e \in AnyDocs : docs = <<e>>
    /\ runs = <<>>
    /\ analytics = NoAnalytics
    /\ BatchIdle

MergeOnce(in) == runs = <<>> /\ Merge(in)

NextAny == \E in \in RunInputs : MergeOnce(in)

SpecAny == InitAny /\ [][NextAny]_vars

(***************************************************************************)
(* Properties of the merge of documents of any structure                   *)
(***************************************************************************)
\* the lines of a document before its first numbered section heading
HeaderOf(doc) ==
    IF HeadingLines(doc) = {} THEN doc
    ELSE SubSeq(doc, 1, MinOf(HeadingLines(doc)) - 1)

\* the lines of a document before its first level-2 heading
PreambleOf(doc) ==
    LET hs == {i \in DOMAIN doc : StartsWith(doc[i], "## ")}
    IN  IF hs = {} THEN doc ELSE SubSeq(doc, 1, MinOf(hs) - 1)

\* C12: when the fresh document has a numbered section heading, the merged
\* document begins with the lines that precede the first such heading in the fresh
\* document (without the rule and the blank lines that close them), and holds no
\* line of the existing document's preamble that the fresh document lacks.
C12_HeaderPreserved ==
    (runs # <<>> /\ HeadingLines(fresh) # {}) =>
        LET H == IF HeaderOf(fresh) = <<>> THEN <<>> ELSE Trimmed(HeaderOf(fresh))
        IN  /\ Len(Merged) >= Len(H)
            /\ SubSeq(Merged, 1, Len(H)) = H
            /\ (LinesOf(Merged) \cap BodyLines(PreambleOf(Existing))) \subseteq LinesOf(fresh)

(***************************************************************************)
(* Properties of the Update History row of a merge                         *)
(***************************************************************************)
\* the names of a list separated by a comma and a space
RECURSIVE Listed(_)
Listed(names) ==
    IF Len(names) = 1 THEN names[1] ELSE names[1] \o ", " \o Listed(Tail(names))

\* the table beneath the last Update History heading of a document, which in a
\* merged document is the heading merge_profiles wrote
WrittenUpdateTable(doc) ==
    LET hs == {i \in DOMAIN doc : StartsWith(doc[i], UPDATE_HEADING)}
    IN  IF hs = {} THEN <<>>
        ELSE ShownTable(SubSeq(doc, MaxOf(hs), Len(doc)), UPDATE_HEADING)

\* C13: the first body row of the Update History table that a merge writes is
\* "| <today> | Profile refreshed | <sources> |", <sources> being the sources of
\* the merge in order separated by ", ", or "Auto-refresh" when there are none.
C13_FirstRowIsNewRow ==
    runs # <<>> =>
        /\ WrittenUpdateTable(Merged) # <<>>
        /\ WrittenUpdateTable(Merged)[1] =
             "| " \o LastRun.today \o " | Profile refreshed | "
                  \o (IF LastRun.sources = <<>> THEN "Auto-refresh"
                      ELSE Listed(LastRun.sources))
                  \o " |"

\* C13 witness: a merge with two sources and then a merge without sources, after
\* which no numbered section differs from what it was; each put its row first.
C13_Witness ==
    /\ Len(runs) = 2
    /\ Sections(docs[3]) = Sections(docs[2])
    /\ UpdateTable(docs[2])[1] = "| 2026-02-01 | Profile refreshed | slack, analytics |"
    /\ UpdateTable(docs[3])[1] = "| 2026-02-02 | Profile refreshed | Auto-refresh |"

(***************************************************************************)
(* Properties of the parsers                                               *)
(***************************************************************************)
\* the texts the parsers are applied to: the arguments of merge_profiles and the
\* documents it returned
ParsedDocs == {fresh} \cup {docs[i] : i \in DOMAIN docs}

\* a line "## " followed by a digit
Numbered(l) == StartsWith(l, "## ") /\ Len(l) >= 4 /\ Ch(l, 4) \in Digits

\* no line starting with a bar follows a line that holds pat
NoTable(doc, pat) ==
    ~\E i \in DOMAIN doc, j \in DOMAIN doc :
        i < j /\ Contains(doc[i], pat) /\ StartsWith(doc[j], "|")

\* a line starting with the Update History heading, and no line starting with the
\* footer disclaimer after the first such line
UpdateWithoutFooter(doc) ==
    /\ \E i \in DOMAIN doc : StartsWith(doc[i], UPDATE_HEADING)
    /\ ~\E i \in DOMAIN doc, j \in DOMAIN doc :
          /\ i < j
          /\ StartsWith(doc[i], UPDATE_HEADING)
          /\ \A x \in 1..(i - 1) : ~StartsWith(doc[x], UPDATE_HEADING)
          /\ StartsWith(doc[j], FOOTER_PREFIX)

\* C14: for every text, parse_profile_sections yields a map whose numeric keys
\* are naturals, none when the text has no numbered level-2 heading, with the key
\* "update_history" and without the key "footer" when the text has an Update
\* History block and no footer; the extractors yield a list of rows, empty when the
\* text has no such table.
C14_ParsersTotal ==
    \A doc \in ParsedDocs :
        LET p == parse_profile_sections(doc)
        IN  /\ DOMAIN p.sections \subseteq Nat
            /\ p.keys \subseteq {"update_history", "footer"}
            /\ (\A i \in DOMAIN doc : ~Numbered(doc[i])) => DOMAIN p.sections = {}
            /\ UpdateWithoutFooter(doc) => p.keys = {"update_history"}
            /\ extract_metrics_history(doc) \in Seq(STRING)
            /\ extract_update_history(doc) \in Seq(STRING)
            /\ NoTable(doc, "### Metrics History") => extract_metrics_history(doc) = <<>>
            /\ NoTable(doc, UPDATE_HEADING) => extract_update_history(doc) = <<>>

\* C14 witness: merge_profiles has parsed an existing document that is an Update
\* History table alone, with neither a numbered heading nor a footer nor a metrics
\* table.
C14_Witness ==
    /\ runs # <<>>
    /\ UpdateWithoutFooter(docs[1])
    /\ \A i \in DOMAIN docs[1] : ~Numbered(docs[1][i])
    /\ NoTable(docs[1], "### Metrics History")
    /\ parse_profile_sections(docs[1]).keys = {"update_history"}
    /\ extract_update_history(docs[1]) # <<>>

(***************************************************************************)
(* Section formatters (update_profiles.py, lines 434-770)                  *)
(*                                                                         *)
(* A dictionary is a function from the keys present to their values; None  *)
(* and the empty dictionary are both the empty function, which the source  *)
(* does not tell apart (it tests "not data").  Numbers are naturals, a     *)
(* dictionary whose keys are listed in order (channel_breakdown) is the    *)
(* sequence of its keys.  A string result is the sequence of its lines; a  *)
(* tuple result is the sequence of its items, each the sequence of its     *)
(* lines.                                                                  *)
(***************************************************************************)
NoData == <<>>

\* d.get(key, default)
Get(d, key, default) == IF key \in DOMAIN d THEN d[key] ELSE default

\* str(d.get(key, default)) for a number
GetNum(d, key, default) == IF key \in DOMAIN d THEN ToString(d[key]) ELSE default

\* str(d.get(key, "")) if d.get(key) else "" for a number
NumOrEmpty(d, key) == IF key \in DOMAIN d /\ d[key] # 0 THEN ToString(d[key]) ELSE ""

\* the result of a formatter that returns a string, and of one that returns a tuple
StrResult(lines) == [kind |-> "str", text |-> lines]

TupleResult(items) == [kind |-> "tuple", items |-> items]

\* items[:5]
FirstFive(items) == SubSeq(items, 1, IF Len(items) < 5 THEN Len(items) ELSE 5)

SLACK_PATTERNS ==
    << "",
       "**Communication Patterns:**",
       "- Tone and voice: *To be assessed*",
       "- Clarity and structure: *To be assessed*",
       "- Technical vs. non-technical balance: *To be assessed*",
       "- Engagement style: *To be assessed*",
       "- Collaboration indicators: *To be assessed*" >>

\* the default rendering of format_slack_section (lines 437-452)
SLACK_DEFAULT ==
    << "### Public Channels",
       "",
       "| Metric | Value |",
       "|--------|-------|",
       "| **Total Messages** | *Not yet analyzed* |",
       "| **Average Message Length** | |",
       "| **Messages per Week** | |",
       "| **Most Active Channels** | |",
       "| **Peak Activity Times** | |" >> \o SLACK_PATTERNS

\* not slack_data or "public_channels" not in slack_data (line 436)
SlackAbsent(slack_data) == slack_data = NoData \/ "public_channels" \notin DOMAIN slack_data

format_slack_section(slack_data) ==
    IF SlackAbsent(slack_data) THEN StrResult(SLACK_DEFAULT)
    ELSE LET public   == slack_data["public_channels"]
             metrics  == Get(public, "metrics", NoData)
             channels == Get(public, "channel_breakdown", <<>>)
             top_channels == IF channels # <<>> THEN JoinComma(FirstFive(channels)) ELSE "N/A"
             peak_time == IF "peak_activity_hour" \in DOMAIN metrics
                          THEN ToString(metrics["peak_activity_hour"]) \o ":00" ELSE "N/A"
             peak_day  == IF Get(metrics, "peak_activity_day", "") # ""
                          THEN metrics["peak_activity_day"] ELSE "N/A"
         IN  StrResult(
               << "### Public Channels",
                  "",
                  "| Metric | Value |",
                  "|--------|-------|",
                  "| **Total Messages** | " \o GetNum(metrics, "total_messages", "N/A") \o " |",
                  "| **Average Message Length** | "
                      \o GetNum(metrics, "average_message_length", "N/A") \o " chars |",
                  "| **Messages per Week** | " \o GetNum(metrics, "messages_per_week", "N/A") \o " |",
                  "| **Most Active Channels** | " \o top_channels \o " |",
                  "| **Peak Activity Times** | " \o peak_day \o " @ " \o peak_time \o " |" >>
               \o SLACK_PATTERNS)

\* the default rendering of format_analytics_section (lines 487-505)
ANALYTICS_DEFAULT ==
    << "### DORA Metrics",
       "",
       "| Metric | Value | Rating | Trend |",
       "|--------|-------|--------|-------|",
       "| **Deployment Frequency** | *Not yet imported* | | |",
       "| **Lead Time for Changes** | | | |",
       "| **Change Failure Rate** | | | |",
       "| **Mean Time to Recovery** | | | |",
       "",
       "### Contribution Metrics",
       "",
       "| Metric | Current Period | Previous Period | Trend |",
       "|--------|----------------|-----------------|-------|",
       "| PRs Merged | | | |",
       "| Review Turnaround (avg) | | | |",
       "| Lines Added | | | |",
       "| Lines Deleted | | | |",
       "| Code Review Participation | | | |",
       "| CI Pass Rate | | | |" >>

\* trend (lines 523-536): the three arrow characters are named UP, DOWN and FLAT
Trend(current, previous, key) ==
    IF key \notin DOMAIN current \/ key \notin DOMAIN previous THEN ""
    ELSE IF current[key] > previous[key] THEN "UP"
    ELSE IF current[key] < previous[key] THEN "DOWN"
    ELSE "FLAT"

\* the greatest period label other than top, or "" when there is none
SecondPeriod(periods, top) ==
    IF DOMAIN periods = {top} THEN ""
    ELSE CHOOSE p \in DOMAIN periods \ {top} :
            \A q \in DOMAIN periods \ {top} : q = p \/ StrLess(q, p)

\* format_analytics_section: periods is analytics_data["periods"], each period a
\* dictionary with the optional keys "metrics" and "dora"
format_analytics_section(periods) ==
    IF DOMAIN periods = {} THEN StrResult(ANALYTICS_DEFAULT)
    ELSE LET current_period  == LatestPeriod(periods)
             previous_period == SecondPeriod(periods, current_period)
             current  == periods[current_period]
             previous == IF previous_period = "" THEN NoData ELSE periods[previous_period]
             cm == Get(current, "metrics", NoData)
             cd == Get(current, "dora", NoData)
             pm == Get(previous, "metrics", NoData)
             Row(label, key) ==
                 "| " \o label \o " | " \o GetNum(cm, key, "N/A") \o " | "
                      \o GetNum(pm, key, "N/A") \o " |"
         IN  StrResult(
               << "### DORA Metrics",
                  "",
                  "| Metric | Value | Rating | Trend |",
                  "|--------|-------|--------|-------|",
                  "| **Deployment Frequency** | " \o Get(cd, "deployment_frequency", "N/A") \o " | | |",
                  "| **Lead Time for Changes** | " \o Get(cd, "lead_time", "N/A") \o " | | |",
                  "| **Change Failure Rate** | " \o Get(cd, "change_failure_rate", "N/A") \o " | | |",
                  "| **Mean Time to Recovery** | " \o Get(cd, "mttr", "N/A") \o " | | |",
                  "",
                  "### Contribution Metrics (" \o current_period \o ")",
                  "",
                  "| Metric | Current Period | Previous Period | Trend |",
                  "|--------|----------------|-----------------|-------|",
                  Row("PRs Merged", "prs_merged") \o " " \o Trend(cm, pm, "prs_merged") \o " |",
                  Row("Reviews", "reviews") \o " |",
                  Row("Lines Added", "lines_added") \o " |",
                  Row("Lines Deleted", "lines_deleted") \o " |" >>)

\* the default result of format_rfc_section (lines 567-574)
RFC_DEFAULT ==
    << <<"0">>, <<"0">>, <<"*No RFCs authored*">>, <<"*No RFC contributions*">>,
       <<"Not available">> >>

\* one line of authored_lines (lines 584-591) and of contributed_lines (600-607)
AuthoredLine(rfc) ==
    IF Get(rfc, "url", "") # ""
    THEN "- [" \o Get(rfc, "title", "Unknown") \o "](" \o rfc["url"] \o ") ("
              \o Get(rfc, "status", "Unknown") \o ")"
    ELSE "- " \o Get(rfc, "title", "Unknown") \o " (" \o Get(rfc, "status", "Unknown") \o ")"

ContributedLine(rfc) ==
    IF Get(rfc, "url", "") # ""
    THEN "- [" \o Get(rfc, "title", "Unknown") \o "](" \o rfc["url"] \o ") - "
              \o Get(rfc, "role", "Contributor")
    ELSE "- " \o Get(rfc, "title", "Unknown") \o " - " \o Get(rfc, "role", "Contributor")

\* format_rfc_section; full_rfc_data is what load_rfc_engagement_data returns
format_rfc_section(rfc_data, full_rfc_data) ==
    IF rfc_data = NoData THEN TupleResult(RFC_DEFAULT)
    ELSE LET totals      == Get(rfc_data, "totals", NoData)
             authored    == Get(rfc_data, "rfcs_authored", <<>>)
             contributed == Get(rfc_data, "rfcs_contributed", <<>>)
         IN  TupleResult(
               << <<GetNum(totals, "authored", "0")>>,
                  <<GetNum(totals, "contributed", "0")>>,
                  IF authored # <<>>
                  THEN [i \in DOMAIN authored |-> AuthoredLine(authored[i])]
                  ELSE <<"*No RFCs authored*">>,
                  IF contributed # <<>>
                  THEN [i \in DOMAIN contributed |-> ContributedLine(contributed[i])]
                  ELSE <<"*No RFC contributions*">>,
                  <<IF full_rfc_data # NoData THEN Get(full_rfc_data, "analysis_date", "Unknown")
                    ELSE "Not available">> >>)

\* pattern_items as a bullet list: the labelled values of the keys that are set
\* and not empty, or the placeholder when there are none
RECURSIVE PatternItems(_, _)
PatternItems(patterns, labelled) ==
    IF labelled = <<>> THEN <<>>
    ELSE (IF Get(patterns, labelled[1][1], "") # ""
          THEN <<"- " \o labelled[1][2] \o ": " \o patterns[labelled[1][1]]>>
          ELSE <<>>)
         \o PatternItems(patterns, Tail(labelled))

PatternList(patterns, labelled) ==
    IF PatternItems(patterns, labelled) = <<>> THEN <<"*To be assessed*">>
    ELSE PatternItems(patterns, labelled)

\* a default result that lacks its last item
EMAIL_DEFAULT_NoPeriod ==
    << <<"*Not yet analyzed*">>, <<"">>, <<"">>, <<"">>, <<"*To be assessed*">>,
       <<"*None captured*">>, <<"Not analyzed">> >>

\* the default result of format_email_section (lines 633-643)
EMAIL_DEFAULT ==
    << <<"*Not yet analyzed*">>, <<"">>, <<"">>, <<"">>, <<"*To be assessed*">>,
       <<"*None captured*">>, <<"Not analyzed">>, <<"N/A">> >>

\* one line of notable_items (lines 673-677)
NotableEmail(email) ==
    "- **" \o Get(email, "date", "Unknown date") \o "**: " \o Get(email, "subject", "No subject")
         \o (IF Get(email, "summary", "") # "" THEN " - " \o email["summary"] ELSE "")

format_email_section(email_data) ==
    IF email_data = NoData THEN TupleResult(EMAIL_DEFAULT)
    ELSE LET metrics  == Get(email_data, "metrics", NoData)
             patterns == Get(email_data, "patterns", NoData)
             notable  == FirstFive(Get(email_data, "notable_emails", <<>>))
         IN  TupleResult(
               << <<GetNum(metrics, "total_emails", "*Not yet analyzed*")>>,
                  <<NumOrEmpty(metrics, "average_length")>>,
                  <<NumOrEmpty(metrics, "response_rate")>>,
                  <<NumOrEmpty(metrics, "average_response_time")>>,
                  PatternList(patterns,
                              << <<"tone", "Tone">>, <<"clarity", "Clarity">>,
                                 <<"responsiveness", "Responsiveness">>,
                                 <<"detail_level", "Detail level">>,
                                 <<"proactiveness", "Proactiveness">> >>),
                  IF notable # <<>> THEN [i \in DOMAIN notable |-> NotableEmail(notable[i])]
                  ELSE <<"*None captured*">>,
                  <<Get(email_data, "analysis_date", "Not analyzed")>>,
                  <<Get(email_data, "analysis_period", "N/A")>> >>)

\* the default result of format_meeting_section (lines 711-720)
MEETING_DEFAULT ==
    << <<"*Not yet analyzed*">>, <<"">>, <<"">>, <<"*To be assessed*">>,
       <<"*None captured*">>, <<"Not analyzed">>, <<"N/A">> >>

\* one line of notable_items (lines 749-753)
NotableContribution(contrib) ==
    "- **" \o Get(contrib, "meeting", "Unknown meeting") \o "** ("
         \o Get(contrib, "date", "Unknown date") \o "): " \o Get(contrib, "contribution", "")

format_meeting_section(meeting_data) ==
    IF meeting_data = NoData THEN TupleResult(MEETING_DEFAULT)
    ELSE LET metrics  == Get(meeting_data, "metrics", NoData)
             patterns == Get(meeting_data, "engagement_patterns", NoData)
             notable  == FirstFive(Get(meeting_data, "notable_contributions", <<>>))
         IN  TupleResult(
               << <<GetNum(metrics, "meetings_attended", "*Not yet analyzed*")>>,
                  <<NumOrEmpty(metrics, "contribution_mentions")>>,
                  <<NumOrEmpty(metrics, "action_items_assigned")>>,
                  PatternList(patterns,
                              << <<"participation_level", "Participation">>,
                                 <<"contribution_quality", "Contribution quality">>,
                                 <<"initiative", "Initiative">>,
                                 <<"collaboration", "Collaboration">>,
                                 <<"follow_through", "Follow-through">> >>),
                  IF notable # <<>>
                  THEN [i \in DOMAIN notable |-> NotableContribution(notable[i])]
                  ELSE <<"*None captured*">>,
                  <<Get(meeting_data, "analysis_date", "Not analyzed")>>,
                  <<Get(meeting_data, "analysis_period", "N/A")>> >>)

(***************************************************************************)
(* Calls of the section formatters with data that is absent, partial or    *)
(* complete                                                                *)
(***************************************************************************)
\* the greatest number of notable items, channels and RFCs in the data
MaxItems == 6

\* the dictionary d without the keys outside K
Only(d, K) == [k \in K \cap DOMAIN d |-> d[k]]

\* every dictionary made of some of the keys of d
Parts(d) == {Only(d, K) : K \in SUBSET DOMAIN d}

Channels == [i \in 1..MaxItems |-> "chan" \o ToString(i)]

SlackInputs ==
    {NoData, [other_data |-> NoData], [public_channels |-> NoData]}
    \cup { [public_channels |-> [metrics |-> m, channel_breakdown |-> c]] :
             m \in Parts([total_messages |-> 120, peak_activity_hour |-> 0,
                          peak_activity_day |-> "Tuesday"]),
             c \in {<<>>, SubSeq(Channels, 1, 2), Channels} }

AnalyticsInputs ==
    { NoData,
      [p \in {"2025-12"} |-> NoData],
      [p \in {"2025-12"} |-> [metrics |-> [prs_merged |-> 10, reviews |-> 5],
                              dora |-> [deployment_frequency |-> "daily"]]],
      [p \in {"2025-12", "2026-01"} |->
          IF p = "2025-12" THEN [metrics |-> [prs_merged |-> 10, lines_added |-> 200]]
          ELSE [metrics |-> [prs_merged |-> 15, lines_deleted |-> 30]]],
      [p \in {"2025-12", "2026-01"} |->
          IF p = "2025-12" THEN [metrics |-> [prs_merged |-> 10]]
          ELSE [metrics |-> [reviews |-> 15], dora |-> [mttr |-> "2h", lead_time |-> "1d"]]] }

Rfcs ==
    [i \in 1..MaxItems |->
        IF i = 1 THEN [title |-> "RFC 1", status |-> "Accepted", url |-> "https://n/1",
                       role |-> "Reviewer"]
        ELSE [title |-> "RFC " \o ToString(i)]]

RfcInputs ==
    { [rfc |-> r, full |-> f] :
        r \in {NoData} \cup Parts([totals |-> [authored |-> 2], rfcs_authored |-> Rfcs,
                                   rfcs_contributed |-> SubSeq(Rfcs, 1, 1)]),
        f \in {NoData, [analysis_date |-> "2026-01-15"], [members |-> NoData]} }

Notables ==
    [i \in 1..MaxItems |->
        IF i = 1 THEN [date |-> "2026-01-10", subject |-> "Incident review",
                       summary |-> "clear write-up", meeting |-> "Retro",
                       contribution |-> "proposed the fix"]
        ELSE [date |-> "2026-01-1" \o ToString(i)]]

EmailInputs ==
    {NoData}
    \cup { Only([metrics |-> m, patterns |-> p, notable_emails |-> n,
                 analysis_date |-> "2026-01-15", analysis_period |-> "90 days"], K) :
             m \in {[total_emails |-> 40, average_length |-> 0],
                    [average_length |-> 300, response_rate |-> 80]},
             p \in {[tone |-> ""], [tone |-> "direct", proactiveness |-> "high"]},
             n \in {<<>>, Notables},
             K \in SUBSET {"metrics", "patterns", "notable_emails", "analysis_date",
                           "analysis_period"} }

MeetingInputs ==
    {NoData}
    \cup { Only([metrics |-> m, engagement_patterns |-> p, notable_contributions |-> n,
                 analysis_date |-> "2026-01-15", analysis_period |-> "90 days"], K) :
             m \in {[meetings_attended |-> 12, action_items_assigned |-> 0],
                    [contribution_mentions |-> 3]},
             p \in {[initiative |-> ""], [initiative |-> "high", follow_through |-> "good"]},
             n \in {<<>>, Notables},
             K \in SUBSET {"metrics", "engagement_patterns", "notable_contributions",
                           "analysis_date", "analysis_period"} }

\* no merge runs
MergeIdle ==
    /\ fresh = <<"">>
    /\ docs = <<>>
    /\ runs = <<>>
    /\ analytics = NoAnalytics

InitFormat == MergeIdle /\ BatchIdle

\* a call of one formatter
Rendered(name, data, result) ==
    /\ render' = [formatter |-> name, data |-> data, result |-> result]
    /\ UNCHANGED <<mergeVars, analytics, batchVars, fetch, paging>>

FormatSlack == \E d \in SlackInputs : Rendered("slack", d, format_slack_section(d))

FormatAnalytics == \E d \in AnalyticsInputs : Rendered("analytics", d, format_analytics_section(d))

FormatRfc == \E d \in RfcInputs : Rendered("rfc", d, format_rfc_section(d.rfc, d.full))

FormatEmail == \E d \in EmailInputs : Rendered("email", d, format_email_section(d))

FormatMeeting == \E d \in MeetingInputs : Rendered("meeting", d, format_meeting_section(d))

NextFormat == FormatSlack \/ FormatAnalytics \/ FormatRfc \/ FormatEmail \/ FormatMeeting

SpecFormat == InitFormat /\ [][NextFormat]_vars

(***************************************************************************)
(* Properties of the section formatters                                    *)
(***************************************************************************)
\* the data source of the last formatter call is absent
AbsentData ==
    /\ render # NoCall
    /\ CASE render.formatter = "slack" ->
              render.data = NoData \/ "public_channels" \notin DOMAIN render.data
         [] render.formatter = "rfc"   -> render.data.rfc = NoData
         [] OTHER                      -> render.data = NoData

\* the lines of a result, whatever its kind
ResultLines(result) ==
    IF result.kind = "str" THEN LinesOf(result.text)
    ELSE UNION {LinesOf(result.items[i]) : i \in DOMAIN result.items}

\* some line of the result holds the marker
Marked(result, marker) == \E l \in ResultLines(result) : Contains(l, marker)

\* the kind of result of each formatter and, for a tuple, its number of items
ShapeOf(result) == IF result.kind = "str" THEN <<"str">> ELSE <<"tuple", Len(result.items)>>

DocumentedShape(formatter) ==
    CASE formatter = "slack"     -> <<"str">>
      [] formatter = "analytics" -> <<"str">>
      [] formatter = "rfc"       -> <<"tuple", 5>>
      [] formatter = "email"     -> <<"tuple", 8>>
      [] formatter = "meeting"   -> <<"tuple", 7>>

MaxEmails == 3

EmailPool == {"alice@example.com", "bob@example.com"}

Outcomes == {"data", "none", "raise"}

\* the dictionary get_employee_data returns for an email
EmployeeData(email) == [person |-> email]

\* results[email] = data
Assign(dict, email, data) ==
    [e \in DOMAIN dict \cup {email} |-> IF e = email THEN data ELSE dict[e]]

\* the body of the loop without its try and except: the exception of a call
\* leaves the function
AfterCall_NoExcept(f, outcome) ==
    LET email == f.emails[f.i]
    IN  [f EXCEPT !.calls = Append(@, [email |-> email, outcome |-> outcome]),
                  !.results = IF outcome = "data"
                              THEN Assign(@, email, EmployeeData(email)) ELSE @,
                  !.i = @ + 1,
                  !.pc = IF outcome = "raise" THEN "raised" ELSE @]

\* the body of the loop (lines 255-264) for one email
AfterCall(f, outcome) ==
    LET email == f.emails[f.i]
    IN  [f EXCEPT !.calls = Append(@, [email |-> email, outcome |-> outcome]),
                  !.results = IF outcome = "data"
                              THEN Assign(@, email, EmployeeData(email)) ELSE @,
                  !.i = @ + 1]

InitFetch ==
    /\ MergeIdle
    /\ before = <<>> /\ team = <<>> /\ files = <<>> /\ idx = 1 /\ trace = <<>> /\ pc = "done"
    /\ pending = <<>>
    /\ mode = [force |-> FALSE, init |-> FALSE, regenerate |-> FALSE]
    /\ results = [updated |-> <<>>, skipped |-> <<>>, errors |-> <<>>]
    /\ render = NoCall
    /\ paging = NoCall
    /\ \E es \in UNION {[1..n -> EmailPool] : n \in 0..MaxEmails} :
         fetch = [emails |-> es, i |-> 1, results |-> <<>>, calls |-> <<>>, pc |-> "start"]

\* client = HumaansClient() (line 252): the constructor raises ValueError when no
\* API token is configured
NewClient ==
    /\ fetch # NoCall /\ fetch.pc = "start"
    /\ \E token \in BOOLEAN : fetch' = [fetch EXCEPT !.pc = IF token THEN "loop" ELSE "raised"]
    /\ UNCHANGED <<mergeVars, analytics, batchVars, render, paging>>

\* one iteration of the loop
FetchOne ==
    /\ fetch # NoCall /\ fetch.pc = "loop" /\ fetch.i <= Len(fetch.emails)
    /\ \E outcome \in Outcomes : fetch' = AfterCall(fetch, outcome)
    /\ UNCHANGED <<mergeVars, analytics, batchVars, render, paging>>

\* return results (line 266)
ReturnFetched ==
    /\ fetch # NoCall /\ fetch.pc = "loop" /\ fetch.i > Len(fetch.emails)
    /\ fetch' = [fetch EXCEPT !.pc = "done"]
    /\ UNCHANGED <<mergeVars, analytics, batchVars, render, paging>>

NextFetch == NewClient \/ FetchOne \/ ReturnFetched

SpecFetch == InitFetch /\ [][NextFetch]_vars

\* C16: once the client exists, get_employee_data is called for the emails in
\* the given order, one call per entry, whatever the earlier calls did, and no
\* outcome of a call makes the function raise; the dictionary returned has as keys
\* exactly the emails for which a call returned data.
C16_FetchIsolatesFailures ==
    /\ fetch.pc \in {"loop", "done"} =>
         /\ Len(fetch.calls) = fetch.i - 1
         /\ \A k \in DOMAIN fetch.calls : fetch.calls[k].email = fetch.emails[k]
    /\ fetch.pc = "raised" => fetch.calls = <<>>
    /\ fetch.pc = "done" =>
         /\ Len(fetch.calls) = Len(fetch.emails)
         /\ DOMAIN fetch.results =
              {fetch.calls[k].email : k \in {j \in DOMAIN fetch.calls :
                                               fetch.calls[j].outcome = "data"}}

\* C16 witness: the function has returned after a call that returned None and a
\* call that raised, each followed by a call that returned data.
C16_Witness ==
    /\ fetch.pc = "done"
    /\ Len(fetch.calls) = 3
    /\ fetch.calls[1].outcome = "raise"
    /\ fetch.calls[2].outcome = "none"
    /\ fetch.calls[3].outcome = "data"
    /\ fetch.calls[1].email # fetch.calls[3].email
    /\ DOMAIN fetch.results = {fetch.calls[3].email}

(***************************************************************************)
(* The updates of the members in any order, and interleaved                *)
(***************************************************************************)
\* update_all_profiles runs the calls of update_profile one after the other in the
\* order of the configuration.  Here the calls run in any order, and a call that
\* has read its profile file (lines 1007-1012) may wait while other calls read
\* and write, before it writes (lines 1068-1069).

\* the greatest number of members whose updates interleave
MaxWorkers == 2

\* the batch starts with n whole configuration entries, whose profile files are
\* distinct, any of the profiles on disk, any mode
InitAnyOrder ==
    /\ fresh = <<"">>
    /\ docs = <<>>
    /\ runs = <<>>
    /\ analytics = AnalyticsUpTo(1)
    /\ \E n \in 1..MaxWorkers :
         /\ team = [i \in 1..n |-> Member(i)]
         /\ \E present \in SUBSET (1..n) :
              files = [f \in {Member(i).profile_file : i \in 1..n} |->
                         IF \E i \in present : Member(i).profile_file = f
                         THEN OldProfile ELSE NoFile]
    /\ before = files
    /\ pending = <<>>
    /\ CallsIdle
    /\ mode \in [force : BOOLEAN, init : BOOLEAN, regenerate : BOOLEAN]
    /\ idx = 1
    /\ results = [updated |-> <<>>, skipped |-> <<>>, errors |-> <<>>]
    /\ trace = <<>>
    /\ pc = "loop"

\* the positions of the members whose call has returned
Finished == {k \in DOMAIN team : \E t \in DOMAIN trace : trace[t].name = team[k].name}

\* the call of update_profile for member k reads the profile file and computes
\* what it will write
StartUpdate(k) ==
    /\ pc = "loop"
    /\ k \notin DOMAIN pending
    /\ k \notin Finished
    /\ pending' = [j \in DOMAIN pending \cup {k} |->
                     IF j = k
                     THEN [existed |-> FileOf(team[k]) # NoFile,
                           call |-> update_profile(team[k], BatchTemplate, FileOf(team[k]),
                                                   mode.force, BatchSources, mode.regenerate,
                                                   mode.init, analytics, BatchDay)]
                     ELSE pending[j]]
    /\ UNCHANGED <<mergeVars, analytics, team, mode, files, idx, results, trace, pc, before,
                   callVars>>

\* the call of update_profile for member k writes and returns, and the loop
\* records its outcome
FinishUpdate(k) ==
    /\ pc = "loop"
    /\ k \in DOMAIN pending
    /\ LET member == team[k]
           r == pending[k].call
       IN  /\ files' = WriteProfile(files, member, r.written)
           /\ results' = Record(results, member, r.outcome)
           /\ trace' = Append(trace, [name |-> member.name, outcome |-> r.outcome,
                                      existed |-> pending[k].existed,
                                      merged |-> r.merged,
                                      warned |-> r.warned,
                                      wrote |-> r.written # NoFile])
    /\ pending' = [j \in DOMAIN pending \ {k} |-> pending[j]]
    /\ idx' = idx + 1
    /\ UNCHANGED <<mergeVars, analytics, team, mode, pc, before, callVars>>

NextAnyOrder ==
    \/ \E k \in DOMAIN team : StartUpdate(k)
    \/ \E k \in DOMAIN team : FinishUpdate(k)
    \/ ReturnResults

SpecAnyOrder == InitAnyOrder /\ [][NextAnyOrder]_vars

\* what the profile file of member k holds after the update of member k alone,
\* run on the directory as it was when the batch started
AloneResult(k) ==
    LET was == before[team[k].profile_file]
        r == update_profile(team[k], BatchTemplate, was, mode.force, BatchSources,
                            mode.regenerate, mode.init, analytics, BatchDay)
    IN  IF r.written # NoFile THEN r.written ELSE was

\* C17: the members' profile files are distinct, and the updates run in any order
\* and interleaved; at every moment the file of a member whose update has returned
\* holds what the update of that member alone produces from the file's content at
\* the start of the batch, and the file of every other member holds its content at
\* the start of the batch.  So the final content of every file is the same for
\* every order and interleaving, and no update writes another member's file.
C17_OrderIndependent ==
    \A k \in DOMAIN team :
        files[team[k].profile_file] =
            IF k \in Finished THEN AloneResult(k) ELSE before[team[k].profile_file]

\* the batch of two members has returned, the update of the second member returned
\* before the update of the first, and both have written
C17_Witness ==
    /\ pc = "done"
    /\ Len(team) = 2
    /\ Len(trace) = 2
    /\ trace[1].name = team[2].name
    /\ trace[1].wrote /\ trace[2].wrote
    /\ files[team[1].profile_file] # files[team[2].profile_file]

\* the section texts of the parse result of doc that hold a line of the Update
\* History heading
SpansWithUpdateHeading(doc) ==
    {n \in DOMAIN Sections(doc) :
        \E i \in DOMAIN Sections(doc)[n] : StartsWith(Sections(doc)[n][i], UPDATE_HEADING)}

\* C18: for every document, whatever the order of its headings, no numbered
\* section text of parse_profile_sections holds the Update History heading: the
\* text of a section ends at the next numbered heading, at the Update History
\* heading or at the end of the document, whichever comes first.
C18_SpanStopsAtUpdateHistory ==
    \A doc \in ParsedDocs : SpansWithUpdateHeading(doc) = {}

\* the last line of a document that is not empty, "" when there is none
LastNonEmpty(doc) ==
    LET full == {i \in DOMAIN doc : doc[i] # ""}
    IN  IF full = {} THEN "" ELSE doc[MaxOf(full)]

\* C19: in the merged document the numbered section headings stand in strictly
\* ascending order of their numbers (so no number twice), there is exactly one
\* Update History heading and every numbered heading stands before it, and the
\* footer disclaimer is the last non-empty line, also when the fresh or the existing
\* document lists its sections out of order.
C19_ReassemblyOrder ==
    runs # <<>> =>
        LET H == HeadingLines(Merged)
            U == UpdateHeadingLines(Merged)
        IN  /\ \A i, j \in H : i < j => SectionNum(Merged[i]) < SectionNum(Merged[j])
            /\ Cardinality(U) = 1
            /\ \A i \in H : \A u \in U : i < u
            /\ LastNonEmpty(Merged) = FOOTER_LINE

\* the pairs of separator lines of a document with nothing but blank lines
\* between them
RepeatedSeparators(doc) ==
    {p \in (DOMAIN doc) \X (DOMAIN doc) :
        /\ p[1] < p[2]
        /\ doc[p[1]] = "---" /\ doc[p[2]] = "---"
        /\ \A x \in (p[1] + 1)..(p[2] - 1) : doc[x] = ""}

\* C20: the merged document holds no two separator lines with only blank lines
\* between them, and its first line is not a separator, for every pair of input
\* documents: sections that end in one or more separators and a fresh document
\* with an empty header included.
C20_SeparatorsNormalized ==
    runs # <<>> =>
        /\ RepeatedSeparators(Merged) = {}
        /\ Merged[1] # "---"

(***************************************************************************)
(* The metrics snapshot of a merge, for reports with missing and null      *)
(* fields                                                                  *)
(***************************************************************************)
\* a metrics dictionary without the fields whose value is "", which stands for a
\* missing field
Present(m) == [k \in {x \in DOMAIN m : m[x] # ""} |-> m[k]]

\* the metrics dictionaries of a report: any of the fields missing, the line
\* counts null or 0
ReportMetrics ==
    {Present([prs_merged |-> a, reviews |-> b, lines_added |-> c, lines_deleted |-> d]) :
        a \in {"", "12"}, b \in {"", "7"}, c \in {"", "None", "0", "300"},
        d \in {"", "None", "40"}}

\* the analytics data of a merge: none, one report, or the reports of two periods
\* with the fields of the later one as above
SnapshotAnalytics ==
    {NoAnalytics}
    \cup {[p \in {l} |-> m] : l \in {"2025-12", "2026-01"}, m \in ReportMetrics}
    \cup {[p \in {"2025-12", "2026-01"} |->
             IF p = "2025-12" THEN PeriodMetrics(p) ELSE m] : m \in ReportMetrics}

\* the existing documents of a merge: the metrics table with any number of rows,
\* headed as extract_metrics_history expects it or not, and one whose row names a
\* later period in its notes
SnapshotExisting ==
    {ExistingDoc("plain", "plain", rows, spaced, 1, TRUE) :
        rows \in 0..MaxRows, spaced \in BOOLEAN}
    \cup {ReplaceAll(ExistingDoc("plain", "plain", 1, FALSE, 1, TRUE),
                     "-50 | |", <<"-50 | ahead of 2026-01 |">>)}

\* the fresh document holds the Metrics History table and its placeholder
InitSnapshot ==
    /\ fresh \in {generate_profile(Member(1), Template({1, 2, 5, 11}, spaced)) :
                     spaced \in BOOLEAN}
    /\ \E e \in SnapshotExisting : docs = <<e>>
    /\ runs = <<>>
    /\ analytics \in SnapshotAnalytics
    /\ BatchIdle

NextSnapshot == \E in \in RunInputs : MergeOnce(in)

SpecSnapshot == InitSnapshot /\ [][NextSnapshot]_vars

\* the greatest of the period labels under the order of strings
GreatestLabel(periods) ==
    CHOOSE p \in DOMAIN periods : \A q \in DOMAIN periods : ~StrLess(p, q)

\* the text of a count of the row: the sentinel when the field is missing
CountShown(m, key) == IF key \in DOMAIN m THEN m[key] ELSE "N/A"

\* the text of a line count of the row: 0 when the field is missing or null
LinesShown(m, key) == IF key \notin DOMAIN m \/ m[key] = "None" THEN "0" ELSE m[key]

\* the row the claim describes for the report of period p
SnapshotRow(p, m) ==
    "| " \o p \o " | " \o CountShown(m, "prs_merged") \o " | " \o CountShown(m, "reviews")
         \o " | +" \o LinesShown(m, "lines_added") \o "/-" \o LinesShown(m, "lines_deleted")
         \o " | |"

\* C21: the merge puts a new row at the top of the Metrics History table exactly
\* when the analytics data has a period and the greatest period label is in no
\* row extracted from the existing document; the row is | P | prs | reviews |
\* +added/-deleted | | with N/A for a missing prs_merged or reviews and 0 for a
\* missing or null lines_added or lines_deleted; the extracted rows follow it.
C21_SnapshotRow ==
    runs # <<>> =>
        LET old   == extract_metrics_history(Existing)
            given == LastRun.analytics
            P     == GreatestLabel(given)
        IN  MetricsTable(Merged) =
                (IF DOMAIN given # {} /\ \A i \in DOMAIN old : ~Contains(old[i], P)
                 THEN <<SnapshotRow(P, given[P])>>
                 ELSE <<>>) \o old

\* a merge has written the row of a report without prs_merged and with a null
\* lines_added
C21_Witness ==
    /\ runs # <<>>
    /\ DOMAIN LastRun.analytics = {"2025-12", "2026-01"}
    /\ "prs_merged" \notin DOMAIN LastRun.analytics["2026-01"]
    /\ "lines_added" \in DOMAIN LastRun.analytics["2026-01"]
    /\ LastRun.analytics["2026-01"]["lines_added"] = "None"
    /\ MetricsTable(Merged) # <<>>
    /\ MetricsTable(Merged)[1] = "| 2026-01 | N/A | 7 | +0/-40 | |"

\* the heading lines of a document whose section number lies outside 1..12
OutOfRangeLines(doc) == {i \in HeadingLines(doc) : SectionNum(doc[i]) \notin 1..12}

\* the lines of the sections of a document whose number lies outside 1..12: each
\* runs from its heading to the next numbered heading, to the Update History
\* heading or to the end of the document, whichever comes first
OutOfRangeSpan(doc) ==
    {j \in DOMAIN doc :
        \E i \in OutOfRangeLines(doc) :
            /\ i <= j
            /\ \A x \in (i + 1)..j : x \notin HeadingLines(doc) \cup UpdateHeadingLines(doc)}

\* the document without its sections numbered outside 1..12
RECURSIVE WithoutLines(_, _)
WithoutLines(doc, drop) ==
    IF drop = {} THEN doc
    ELSE WithoutLines(RemoveAt(doc, MaxOf(drop)), drop \ {MaxOf(drop)})

InRangeOnly(doc) ==
    IF WithoutLines(doc, OutOfRangeSpan(doc)) = <<>> THEN <<"">>
    ELSE WithoutLines(doc, OutOfRangeSpan(doc))

\* C22: a section numbered outside 1..12 in the fresh or the existing document is
\* not processed by the merge: none of its lines (but blank lines, rules and the
\* footer, which the merge writes itself) is in the merged document, and the
\* texts selected for the sections 1..12 are those selected when the inputs are
\* without such sections.
C22_OutOfRangeIgnored ==
    runs # <<>> =>
        /\ \A doc \in {fresh, Existing} :
             \A j \in OutOfRangeSpan(doc) :
                 doc[j] \in {"", "---", FOOTER_LINE} \/ doc[j] \notin LinesOf(Merged)
        /\ SectionParts(1, Sections(fresh), Sections(Existing))
             = SectionParts(1, Sections(InRangeOnly(fresh)), Sections(InRangeOnly(Existing)))

\* C23: extract_update_history applied to the merged document returns the rows the
\* merge wrote into the Update History table, the new row and after it the rows
\* extracted from the existing document, in that order.
C23_UpdateHistoryRoundTrip ==
    runs # <<>> =>
        extract_update_history(Merged)
            = <<NewUpdateRow(LastRun.sources, LastRun.today)>> \o extract_update_history(Existing)

(***************************************************************************)
(* HumaansClient._get_all                                                  *)
(***************************************************************************)
\* no merge and no batch runs
ProfilesIdle ==
    /\ MergeIdle
    /\ before = <<>> /\ team = <<>> /\ files = <<>> /\ idx = 1 /\ trace = <<>> /\ pc = "done"
    /\ pending = <<>>
    /\ mode = [force |-> FALSE, init |-> FALSE, regenerate |-> FALSE]
    /\ results = [updated |-> <<>>, skipped |-> <<>>, errors |-> <<>>]

\* params["$limit"] (line 67)
PAGE_LIMIT == 100

\* the greatest number of records of one response, and the greatest total a
\* response reports
MaxPage == 2

MaxTotal == 5

\* the responses of the server to the k-th request: a "data" list of any length,
\* with or without a "total"; the records are named by the request and their place
PageData(k, n) == [j \in 1..n |-> <<k, j>>]

Responses(k) ==
    {[data |-> PageData(k, n)] : n \in 0..MaxPage}
    \cup {[data |-> PageData(k, n), total |-> t] : n \in 0..MaxPage, t \in 0..MaxTotal}

\* the loop condition with a strict comparison
LastPage_Strict(all_records, response) ==
    \/ Len(all_records) > (IF "total" \in DOMAIN response THEN response.total
                           ELSE Len(response.data))
    \/ Len(response.data) = 0

\* total = response.get("total", len(data));
\* len(all_records) >= total or len(data) == 0 (lines 77-78)
LastPage(all_records, response) ==
    \/ Len(all_records) >= (IF "total" \in DOMAIN response THEN response.total
                            ELSE Len(response.data))
    \/ Len(response.data) = 0

\* the call starts with $skip = 0 and no records (lines 66-70)
InitGetAll ==
    /\ ProfilesIdle
    /\ render = NoCall
    /\ fetch = NoCall
    /\ paging = [skip |-> 0, requests |-> <<>>, responses |-> <<>>, all_records |-> <<>>,
                 pc |-> "loop"]

\* one iteration of the loop: the request with the current $skip, its response
\* added to the records, and the break and return, or the step to the next page
GetPage ==
    /\ paging.pc = "loop"
    /\ \E response \in Responses(Len(paging.requests) + 1) :
         LET all_records == paging.all_records \o response.data
         IN  paging' = [skip        |-> IF LastPage(all_records, response) THEN paging.skip
                                        ELSE paging.skip + PAGE_LIMIT,
                        requests    |-> Append(paging.requests, paging.skip),
                        responses   |-> Append(paging.responses, response),
                        all_records |-> all_records,
                        pc          |-> IF LastPage(all_records, response) THEN "returned"
                                        ELSE "loop"]
    /\ UNCHANGED <<mergeVars, analytics, batchVars, render, fetch>>

\* the request fails: raise_for_status (line 60) raises and _get_all lets the
\* exception through
GetPageRaises ==
    /\ paging.pc = "loop"
    /\ paging' = [paging EXCEPT !.requests = Append(@, paging.skip), !.pc = "raised"]
    /\ UNCHANGED <<mergeVars, analytics, batchVars, render, fetch>>

NextGetAll == GetPage \/ GetPageRaises

SpecGetAll == InitGetAll /\ [][NextGetAll]_vars

\* the interpreter keeps running the loop: an iteration that can be taken is taken
SpecGetAllFair == SpecGetAll /\ WF_vars(NextGetAll)

\* the records of the first k responses, in the order of the requests
RECURSIVE Received(_, _)
Received(responses, k) ==
    IF k = 0 THEN <<>> ELSE Received(responses, k - 1) \o responses[k].data

\* the response k is one at which the claim says the loop stops
StopsAt(responses, k) ==
    \/ Len(responses[k].data) = 0
    \/ Len(Received(responses, k)) >=
         (IF "total" \in DOMAIN responses[k] THEN responses[k].total
          ELSE Len(responses[k].data))

\* the state of the call agrees with the claim: the requests made have $skip 0,
\* 100, 200, ...; no response before the last is one to stop at; the last is one
\* exactly when the call has returned, and then there is a response to every
\* request; the records are those received, in the order of the requests
GetAllAsClaimed ==
    /\ \A k \in DOMAIN paging.requests : paging.requests[k] = PAGE_LIMIT * (k - 1)
    /\ \A k \in DOMAIN paging.responses :
         StopsAt(paging.responses, k) <=>
            (k = Len(paging.responses) /\ paging.pc = "returned")
    /\ paging.pc = "returned" =>
         /\ paging.responses # <<>>
         /\ Len(paging.requests) = Len(paging.responses)
    /\ paging.all_records = Received(paging.responses, Len(paging.responses))

\* C24: _get_all requests the pages with $skip = 0, 100, 200, ..., stops at the
\* first response at which the records received reach the reported total (the
\* length of the page when none is reported) or whose data is empty, returns the
\* records received in the order of the requests, makes no request once it has
\* stopped, and ends for every server whose totals are bounded.
C24_GetAllPagination ==
    /\ []GetAllAsClaimed
    /\ [][paging.pc # "loop" => paging' = paging]_vars
    /\ <>(paging.pc # "loop")

\* the call has returned five records after three requests, as in
\* test_get_all_pagination
C24_Witness ==
    /\ paging.pc = "returned"
    /\ paging.requests = <<0, 100, 200>>
    /\ Len(paging.all_records) = 5
    /\ paging.all_records[5] = <<3, 1>>

(***************************************************************************)
(* SlackAnalyzer: _analyze_messages and analyze_user_messages              *)
(* (slack_analyzer.py)                                                     *)
(***************************************************************************)
UPPER == "ABCDEFGHIJKLMNOPQRSTUVWXYZ"

LOWER == "abcdefghijklmnopqrstuvwxyz"

\* s.lower(), for the letters A to Z
RECURSIVE Lower(_)
Lower(s) ==
    IF Len(s) = 0 THEN ""
    ELSE (IF IndexOf(UPPER, Ch(s, 1)) > 0
          THEN Ch(LOWER, IndexOf(UPPER, Ch(s, 1))) ELSE Ch(s, 1))
         \o Lower(SubSeq(s, 2, Len(s)))

\* self.channels_to_exclude, from the configured list (lines 38-40)
ExcludedSet(channels_to_exclude) ==
    {Lower(channels_to_exclude[i]) : i \in DOMAIN channels_to_exclude}

\* msg.get("channel", {}).get("name", "unknown") (line 138)
ChannelName(msg) ==
    IF "channel" \in DOMAIN msg /\ "name" \in DOMAIN msg.channel THEN msg.channel.name
    ELSE "unknown"

\* the test of line 139 without the lower-casing of the channel name
IsExcluded_CaseSensitive(msg, excluded) == ChannelName(msg) \in excluded

\* channel_name.lower() in self.channels_to_exclude (line 139)
IsExcluded(msg, excluded) == Lower(ChannelName(msg)) \in excluded

\* _analyze_messages: of the result, the three counts and the channel breakdown.
\* The three return statements are those of lines 121-131, 150-162 and 214-235.
_analyze_messages(messages, excluded) ==
    LET filtered_messages == SelectSeq(messages, LAMBDA m : ~IsExcluded(m, excluded))
        excluded_count    == Len(SelectSeq(messages, LAMBDA m : IsExcluded(m, excluded)))
        channels          == {ChannelName(filtered_messages[i]) : i \in DOMAIN filtered_messages}
    IN  IF messages = <<>>
        THEN [total_messages |-> 0, total_messages_before_filter |-> 0,
              excluded_channels_count |-> 0, channel_breakdown |-> <<>>]
        ELSE IF filtered_messages = <<>>
        THEN [total_messages |-> 0, total_messages_before_filter |-> excluded_count,
              excluded_channels_count |-> excluded_count, channel_breakdown |-> <<>>]
        ELSE [total_messages |-> Len(filtered_messages),
              total_messages_before_filter |-> Len(filtered_messages) + excluded_count,
              excluded_channels_count |-> excluded_count,
              channel_breakdown |->
                 [c \in channels |->
                    Cardinality({i \in DOMAIN filtered_messages :
                                    ChannelName(filtered_messages[i]) = c})]]

\* max_pages (line 84)
MAX_PAGES == 50

\* the greatest number of matches of the first page; a later page holds one match
\* or none
MaxMatches == 2

\* the channels of the messages of a page
PageChannel(page) ==
    CASE page % 3 = 1 -> [name |-> "engineering"]
      [] page % 3 = 2 -> [name |-> "Random"]
      [] OTHER        -> <<>>

\* the matches of a response to the request of a page
Matches(page, n) == [j \in 1..n |-> [id |-> <<page, j>>, channel |-> PageChannel(page)]]

\* What a request of a page comes to: search_messages raises, or it returns a
\* result with the matches and with or without a page_count.  A result without
\* "messages" is one with no match.
SearchOutcomes(page) ==
    LET sizes == IF page = 1 THEN 0..MaxMatches ELSE 0..1
    IN  {[kind |-> "raise", page |-> page]}
        \cup {[kind |-> "ok", page |-> page, matches |-> Matches(page, n)] : n \in sizes}
        \cup {[kind |-> "ok", page |-> page, matches |-> Matches(page, n), page_count |-> c] :
                 n \in sizes, c \in {1, page, page + 1}}

\* pagination.get("page_count", 1) (line 101)
TotalPages(outcome) == IF "page_count" \in DOMAIN outcome THEN outcome.page_count ELSE 1

\* the loop ends with this outcome for a bound of more than max_pages requests
LoopEnds_NoLimit(page, outcome) ==
    \/ outcome.kind = "raise"
    \/ outcome.matches = <<>>
    \/ page >= TotalPages(outcome)
    \/ page + 1 > MAX_PAGES + 1

\* the loop ends with this outcome: the except clause, one of the two break
\* statements, or the loop condition page <= max_pages on the next test
LoopEnds(page, outcome) ==
    \/ outcome.kind = "raise"
    \/ outcome.matches = <<>>
    \/ page >= TotalPages(outcome)
    \/ page + 1 > MAX_PAGES

InitSlack ==
    /\ ProfilesIdle
    /\ render = NoCall
    /\ fetch = NoCall
    /\ \E config \in {<<>>, <<"Random", "unknown">>} :
         paging = [excluded |-> ExcludedSet(config), page |-> 1, calls |-> <<>>,
                   last |-> <<>>, all_messages |-> <<>>, passed |-> <<>>, result |-> <<>>,
                   pc |-> "loop"]

\* one iteration of the loop of analyze_user_messages (lines 88-110)
SearchPage ==
    /\ paging.pc = "loop"
    /\ paging.page <= MAX_PAGES
    /\ \E outcome \in SearchOutcomes(paging.page) :
         paging' = [paging EXCEPT
                      !.calls = Append(@, paging.page),
                      !.last = outcome,
                      !.all_messages = IF outcome.kind = "ok" THEN @ \o outcome.matches ELSE @,
                      !.page = IF LoopEnds(paging.page, outcome) THEN @ ELSE @ + 1,
                      !.pc = IF LoopEnds(paging.page, outcome) THEN "analyze" ELSE "loop"]
    /\ UNCHANGED <<mergeVars, analytics, batchVars, render, fetch>>

\* return self._analyze_messages(all_messages, user_name) (line 116)
AnalyzeCollected ==
    /\ paging.pc = "analyze"
    /\ paging' = [paging EXCEPT
                    !.passed = paging.all_messages,
                    !.result = _analyze_messages(paging.all_messages, paging.excluded),
                    !.pc = "done"]
    /\ UNCHANGED <<mergeVars, analytics, batchVars, render, fetch>>

NextSlack == SearchPage \/ AnalyzeCollected

SpecSlack == InitSlack /\ [][NextSlack]_vars

\* the interpreter keeps running the method: a step that can be taken is taken
SpecSlackFair == SpecSlack /\ WF_vars(NextSlack)

\* the outcome is one after which the claim says the search stops
StopsSearch(outcome) ==
    \/ outcome.kind = "raise"
    \/ outcome.matches = <<>>
    \/ outcome.page >= (IF "page_count" \in DOMAIN outcome THEN outcome.page_count ELSE 1)

\* the pages of the messages of a list are in ascending order, and so are the
\* messages of a page
InPageOrder(messages) ==
    \A i, j \in DOMAIN messages :
        i < j => \/ messages[i].id[1] < messages[j].id[1]
                 \/ messages[i].id[1] = messages[j].id[1] /\ messages[i].id[2] < messages[j].id[2]

\* the number of steps the call can still take, at most: the requests left of the
\* fifty, the call of _analyze_messages and the return
StepsLeft ==
    CASE paging.pc = "loop"    -> (MAX_PAGES - Len(paging.calls)) + 1
      [] paging.pc = "analyze" -> 1
      [] OTHER                 -> 0

\* the guard of one of the steps of the call holds
CanStep ==
    \/ paging.pc = "loop" /\ paging.page <= MAX_PAGES /\ SearchOutcomes(paging.page) # {}
    \/ paging.pc = "analyze"

\* the state of the call agrees with the claim: the requests made are those of
\* the pages 1, 2, 3, ..., fifty at most; the search goes on exactly while the
\* last outcome is not one to stop at and fewer than fifty requests were made;
\* the messages collected are in page order and end with those of the last page;
\* the messages passed to _analyze_messages are the messages collected; a call
\* that has not returned can take a step
SlackAsClaimed ==
    /\ \A k \in DOMAIN paging.calls : paging.calls[k] = k
    /\ Len(paging.calls) <= 50
    /\ paging.pc = "loop" <=>
          \/ paging.calls = <<>>
          \/ ~StopsSearch(paging.last) /\ Len(paging.calls) < 50
    /\ InPageOrder(paging.all_messages)
    /\ (paging.calls # <<>> /\ paging.last.kind = "ok") =>
          /\ Len(paging.all_messages) >= Len(paging.last.matches)
          /\ SubSeq(paging.all_messages,
                    Len(paging.all_messages) - Len(paging.last.matches) + 1,
                    Len(paging.all_messages)) = paging.last.matches
    /\ paging.pc = "done" => paging.passed = paging.all_messages
    /\ paging.pc # "done" => StepsLeft > 0 /\ CanStep

\* a step of the call keeps the messages collected before it, makes a request
\* only while the search goes on, and brings the call nearer to its end
SlackStepAsClaimed ==
    /\ Len(paging'.all_messages) >= Len(paging.all_messages)
    /\ SubSeq(paging'.all_messages, 1, Len(paging.all_messages)) = paging.all_messages
    /\ paging.pc # "loop" => paging'.calls = paging.calls
    /\ StepsLeft' < StepsLeft

\* C25: analyze_user_messages requests the pages 1, 2, 3, ... one after the other,
\* fifty at most; it stops at the first page that is empty, whose number reaches
\* the reported page_count, or whose request raises; it then passes every message
\* collected so far, in page order, to _analyze_messages; and it ends for every
\* behaviour of the server: a call that has not returned can always take a step,
\* and every step lowers the number of steps left, which is never negative.
C25_SlackPagination ==
    /\ []SlackAsClaimed
    /\ [][SlackStepAsClaimed]_vars

\* the call has made fifty requests and has passed the messages of the fifty
\* pages to _analyze_messages
C25_Witness ==
    /\ paging.pc = "done"
    /\ Len(paging.calls) = 50
    /\ paging.last.kind = "ok"
    /\ ~StopsSearch(paging.last)
    /\ Len(paging.passed) >= 50

(***************************************************************************)
(* _analyze_messages on any list of messages                               *)
(***************************************************************************)
\* the greatest number of messages of a list
MaxMessages == 3

\* the messages of a list: in a channel with a name, in a channel without a name,
\* or without a channel
MessagePool ==
    { [text |-> "m", channel |-> [name |-> "engineering"]],
      [text |-> "m", channel |-> [name |-> "general"]],
      [text |-> "m", channel |-> [name |-> "Random"]],
      [text |-> "m", channel |-> <<>>],
      [text |-> "m"] }

\* the configured channels_to_exclude
ExcludeConfigs == {<<>>, <<"general", "random">>, <<"General", "unknown">>}

\* _analyze_messages is called with a list of messages
InitAnalyze ==
    /\ ProfilesIdle
    /\ render = NoCall
    /\ fetch = NoCall
    /\ \E config \in ExcludeConfigs :
       \E messages \in UNION {[1..n -> MessagePool] : n \in 0..MaxMessages} :
         paging = [excluded |-> ExcludedSet(config), page |-> 1, calls |-> <<>>,
                   last |-> <<>>, all_messages |-> messages, passed |-> <<>>,
                   result |-> <<>>, pc |-> "analyze"]

NextAnalyze == AnalyzeCollected

SpecAnalyze == InitAnalyze /\ [][NextAnalyze]_vars

\* the messages of the list whose channel name ("unknown" without one), compared
\* without regard to case, is one of the excluded names
InExcludedChannel(messages, excluded) ==
    {i \in DOMAIN messages :
        \E name \in excluded :
            Lower(name) = Lower(IF "channel" \in DOMAIN messages[i]
                                   /\ "name" \in DOMAIN messages[i].channel
                                THEN messages[i].channel.name ELSE "unknown")}

\* C26: for every list of messages the result of _analyze_messages has
\* total_messages_before_filter = total_messages + excluded_channels_count, where
\* excluded_channels_count is the number of messages whose channel name is in the
\* exclusion set without regard to case, and total_messages the number of the
\* other messages.
C26_CountsAddUp ==
    paging.pc = "done" =>
        LET out == InExcludedChannel(paging.passed, paging.excluded)
        IN  /\ paging.result.total_messages_before_filter
                 = paging.result.total_messages + paging.result.excluded_channels_count
            /\ paging.result.excluded_channels_count = Cardinality(out)
            /\ paging.result.total_messages = Len(paging.passed) - Cardinality(out)

\* as in test_analyze_messages_filters_excluded_channels: of three messages the
\* ones in general and in Random are excluded by the names general and random
C26_Witness ==
    /\ paging.pc = "done"
    /\ paging.excluded = {"general", "random"}
    /\ Len(paging.passed) = 3
    /\ ChannelName(paging.passed[3]) = "Random"
    /\ paging.result.total_messages_before_filter = 3
    /\ paging.result.excluded_channels_count = 2

(***************************************************************************)
(* One call of update_profile on any profile file                          *)
(***************************************************************************)
\* a profile whose section 5 holds text that becomes a placeholder when a
\* placeholder is taken out of it
NestedTokenDoc ==
    <<"# Profile: member1", "## 1. Profile Overview", "Role: Lead",
      "## 5. Leadership Values",
      "see {{UPDATE_{{UPDATE_HISTORY}}HISTORY}} and {{METRICS_{{UPDATE_HISTORY}}HISTORY}}",
      UPDATE_HEADING>> \o UPDATE_HEAD(FALSE) \o <<"| 2025-01-01 | Profile created | x |">>

\* the profile file before the call: none, the usual profile, profiles with fewer
\* parts than the template (1, 3, 4 and no parsed entries against its 6), and the
\* profile with nested placeholders
UpdateDocs ==
    {NoFile, OldProfile, BlockDoc(<<1>>), BlockDoc(<<1, 2>>), BlockDoc(<<1, 2, 3, 5>>),
     BlockDoc(<<1, 2, 3, 5, 7>>), NestedTokenDoc}

\* update_all_profiles runs for one member, with any profile file, in any mode,
\* with and without analytics data
InitUpdate ==
    /\ fresh = <<"">>
    /\ docs = <<>>
    /\ runs = <<>>
    /\ analytics \in {NoAnalytics, AnalyticsUpTo(1)}
    /\ team = <<Member(1)>>
    /\ \E e \in UpdateDocs : files = [f \in {Member(1).profile_file} |-> e]
    /\ before = files
    /\ pending = <<>>
    /\ CallsIdle
    /\ mode \in [force : BOOLEAN, init : BOOLEAN, regenerate : BOOLEAN]
    /\ idx = 1
    /\ results = [updated |-> <<>>, skipped |-> <<>>, errors |-> <<>>]
    /\ trace = <<>>
    /\ pc = "loop"

NextUpdate == ProcessMember \/ ReturnResults

SpecUpdate == InitUpdate /\ [][NextUpdate]_vars

\* the profile file of the k-th member before the batch
PreviousOf(k) == before[team[k].profile_file]

\* the number of entries of the parse result of a document: its numbered
\* sections, its Update History block and its footer
Entries(doc) ==
    Cardinality(DOMAIN Sections(doc)) + Cardinality(parse_profile_sections(doc).keys)

\* the two documents have entries and their numbers differ by more than two
StructureDiffers(a, b) ==
    /\ Entries(a) > 0
    /\ Entries(b) > 0
    /\ Entries(a) - Entries(b) > 2 \/ Entries(b) - Entries(a) > 2

\* C27: when a profile is updated (it exists, without init and regenerate) and
\* its parse result and that of the generated document differ in size by more than
\* two, both being non-empty, update_profile prints the warning, still calls
\* merge_profiles, writes exactly the merge (with the placeholders cleaned), and
\* returns True.
C27_DriftIsAdvisory ==
    \A k \in Called :
        (trace[k].existed /\ ~mode.init /\ ~mode.regenerate
            /\ StructureDiffers(PreviousOf(k), Generated(k))) =>
            /\ trace[k].warned
            /\ trace[k].merged
            /\ trace[k].wrote
            /\ trace[k].outcome = "True"
            /\ ProfileOf(k) = CleanPlaceholders(merge_profiles(Generated(k), PreviousOf(k),
                                                               BatchSources, analytics, BatchDay))

\* a profile with three parsed entries against the six of the template has been
\* updated with the warning
C27_Witness ==
    /\ Called # {}
    /\ Entries(PreviousOf(1)) = 3
    /\ Entries(Generated(1)) = 6
    /\ trace[1].warned
    /\ trace[1].merged
    /\ trace[1].outcome = "True"
    /\ ProfileOf(1) # PreviousOf(1)

\* what the call for the k-th member writes when the profile file holds e before it
WrittenOver(k, e) ==
    update_profile(team[k], BatchTemplate, e, mode.force, BatchSources, mode.regenerate,
                   mode.init, analytics, BatchDay).written

\* C28: update_profile calls merge_profiles exactly when the profile file exists
\* and regenerate and init are both off; in every other case in which it writes
\* (no file, regenerate, init with force on a file) the content written is the
\* same whatever the previous file holds, so that nothing of it survives.
C28_MergeOnlyOnPlainUpdate ==
    \A k \in Called :
        /\ trace[k].merged <=> (trace[k].existed /\ ~mode.regenerate /\ ~mode.init)
        /\ (trace[k].wrote /\ ~trace[k].merged) =>
              \A e \in UpdateDocs :
                  (e # NoFile) = trace[k].existed => WrittenOver(k, e) = ProfileOf(k)

\* a profile with hand-written sections has been initialized again with force:
\* written without a merge, and none of its hand-written lines is left
C28_Witness ==
    /\ Called # {}
    /\ PreviousOf(1) = OldProfile
    /\ mode.init /\ mode.force /\ ~mode.regenerate
    /\ trace[1].wrote
    /\ ~trace[1].merged
    /\ ProfileOf(1) # PreviousOf(1)
    /\ ProfileOf(1) = WrittenOver(1, NoFile)

\* what the call for the k-th member writes over its previous file when force is
\* the opposite of the one of the batch
WrittenWithOtherForce(k) ==
    update_profile(team[k], BatchTemplate, PreviousOf(k), ~mode.force, BatchSources,
                   mode.regenerate, mode.init, analytics, BatchDay)

HoldsToken(doc, tok) == \E i \in DOMAIN doc : IndexOf(doc[i], tok) # 0

\* C30: whenever update_profile returns True, in every mode and with or without
\* analytics data, the file it has written holds neither {{METRICS_HISTORY}} nor
\* {{UPDATE_HISTORY}}.
C30_NoPlaceholderLeft ==
    \A k \in Called :
        trace[k].outcome = "True" =>
            /\ ~HoldsToken(ProfileOf(k), METRICS_TOKEN)
            /\ ~HoldsToken(ProfileOf(k), UPDATE_TOKEN)

====
